---- MODULE Spec2Model ----
(***************************************************************************)
(* A model of the elizaOS MCP gateway: the payment middleware              *)
(* (src/src/core/payment-middleware.ts), the two gateway front-ends        *)
(* (src/src/core/gateway.ts and the session-ledger front-end in            *)
(* src/src/paywall-guard.ts) and the session ledger (PaywallGuard).        *)
(*                                                                         *)
(* Strings the code computes with (money amounts, header values) are       *)
(* sequences of tokens: a money string is a sequence of one-character      *)
(* strings, <<"$","0",".","0","1">> for "$0.01".  JavaScript numbers are   *)
(* IEEE-754 doubles, modelled exactly: a positive double is a record       *)
(* [m, e] with m its 53-bit significand and value m * 2^e.  An absent      *)
(* (undefined) string is the empty sequence, which JavaScript's || and     *)
(* truthiness tests treat as they treat the empty string.                  *)
(***************************************************************************)
EXTENDS Integers, Sequences, FiniteSets, TLC

----------------------------------------------------------------------------
(* Bounds of the model *)

\* Longest amount string given to parseAmountToAtomicUnits on its own.
MaxLen == 5
\* Most headers one request carries.
MaxHeaders == 2
\* Most front-end handler invocations in flight at once.
MaxCalls == 2
\* Most payments the session ledger records in one run.
MaxPayments == 2
\* Most health-check passes under way at once.
MaxPasses == 2
\* Most decimals of a downstream price given to calculateMarkup on its own.
MaxDecimals == 5
\* Most tools one upstream lists when the registry is rebuilt on its own.
MaxListed == 2

----------------------------------------------------------------------------
(* Strings as sequences of characters *)

Digits == {"0", "1", "2", "3", "4", "5", "6", "7", "8", "9"}
DigitChars == <<"0", "1", "2", "3", "4", "5", "6", "7", "8", "9">>

IsDigit(c) == c \in Digits
DigitVal(c) == (CHOOSE i \in 1..10 : DigitChars[i] = c) - 1
DigitChar(n) == DigitChars[n + 1]

RECURSIVE StripLeading(_, _)
\* s without its leading occurrences of c
StripLeading(s, c) ==
  IF s # <<>> /\ Head(s) = c THEN StripLeading(Tail(s), c) ELSE s

RECURSIVE Zeros(_)
Zeros(n) == IF n <= 0 THEN <<>> ELSE <<0>> \o Zeros(n - 1)

AllZero(s) == \A i \in 1..Len(s) : s[i] = 0

\* Money strings of the configuration and of the code
STR_free == <<"f", "r", "e", "e">>
STR_0 == <<"$", "0">>
STR_000 == <<"$", "0", ".", "0", "0">>
STR_001 == <<"$", "0", ".", "0", "1">>
STR_010 == <<"$", "0", ".", "1", "0">>
STR_005 == <<"$", "0", ".", "0", "5">>
STR_201 == <<"$", "2", ".", "0", "1">>
STR_10000 == <<"1", "0", "0", "0", "0">>

----------------------------------------------------------------------------
(* IEEE-754 double arithmetic, as far as parseAmountToAtomicUnits uses it. *)
(* A natural number is a sequence of limbs in base 1024, most significant  *)
(* first; a positive double is [m, e]: m a natural of exactly 53 bits and  *)
(* the value m * 2^e.                                                      *)

RECURSIVE Pow2(_)
Pow2(n) == IF n <= 0 THEN 1 ELSE 2 * Pow2(n - 1)

Limb == [bits |-> 10]
LimbBits == Limb.bits
LimbBase == Pow2(LimbBits)
\* The precision of the binary64 format.
Binary64 == [precision |-> 53]
MantissaBits == Binary64.precision

Normalise(p) == StripLeading(p, 0)
IsZeroNat(p) == AllZero(p)

\* The number of bits of a natural (0 for zero).
BitLen(p) ==
  LET q == Normalise(p)
  IN  IF q = <<>> THEN 0
      ELSE LimbBits * (Len(q) - 1)
           + (CHOOSE n \in 1..LimbBits : Pow2(n - 1) <= q[1] /\ q[1] < Pow2(n))

\* p * c + carry, for a small c.
RECURSIVE MulAdd(_, _, _)
MulAdd(p, c, carry) ==
  IF p = <<>> THEN <<carry \div LimbBase, carry % LimbBase>>
  ELSE LET cur == p[Len(p)] * c + carry
       IN  MulAdd(SubSeq(p, 1, Len(p) - 1), c, cur \div LimbBase)
             \o <<cur % LimbBase>>

\* p divided by a small d: the quotient and the remainder.
RECURSIVE DivSmall(_, _, _)
DivSmall(p, d, r) ==
  IF p = <<>> THEN [q |-> <<>>, r |-> r]
  ELSE LET cur == r * LimbBase + Head(p)
           t == DivSmall(Tail(p), d, cur % d)
       IN  [q |-> <<cur \div d>> \o t.q, r |-> t.r]

\* p shifted right by s bits, and whether a non-zero bit was shifted out.
ShiftRight(p, s) ==
  LET a == s \div LimbBits
      b == s % LimbBits
      kept == SubSeq(p, 1, Len(p) - a)
      dropped == SubSeq(p, Len(p) - a + 1, Len(p))
      d == DivSmall(kept, Pow2(b), 0)
  IN  [q |-> d.q, lost |-> d.r # 0 \/ ~AllZero(dropped)]

\* p shifted left by s bits.
ShiftLeft(p, s) ==
  MulAdd(p, Pow2(s % LimbBits), 0) \o Zeros(s \div LimbBits)

\* Round the natural p (of at least 54 bits) times 2^e to a double, to
\* nearest, ties to even; sticky says that p itself was cut from a longer
\* expansion with non-zero bits after it.
RoundDouble(p, e, sticky) ==
  LET s == BitLen(p) - (MantissaBits + 1)
      sh == ShiftRight(Normalise(p), s)
      guard == sh.q[Len(sh.q)] % 2
      m == DivSmall(sh.q, 2, 0).q
      odd == m[Len(m)] % 2 = 1
      up == guard = 1 /\ (sh.lost \/ sticky \/ odd)
      m1 == IF up THEN MulAdd(m, 1, 1) ELSE m
  IN  IF BitLen(m1) > MantissaBits
      THEN [m |-> Normalise(DivSmall(m1, 2, 0).q), e |-> e + s + 2]
      ELSE [m |-> Normalise(m1), e |-> e + s + 1]

\* Number.parseFloat's grammar on a string of digits and dots: the longest
\* prefix digits* [ "." digits* ] holding at least one digit, else NaN.
RECURSIVE LeadingDigits(_)
LeadingDigits(s) ==
  IF s = <<>> \/ ~IsDigit(Head(s)) THEN <<>>
  ELSE <<Head(s)>> \o LeadingDigits(Tail(s))

ParseDecimal(s) ==
  LET ip == LeadingDigits(s)
      rest == SubSeq(s, Len(ip) + 1, Len(s))
      fp == IF rest # <<>> /\ Head(rest) = "." THEN LeadingDigits(Tail(rest))
            ELSE <<>>
  IN  IF ip = <<>> /\ fp = <<>>
      THEN [nan |-> TRUE, int |-> <<>>, frac |-> <<>>]
      ELSE [nan |-> FALSE, int |-> ip, frac |-> fp]

\* A decimal digit string as numbers, most significant first.
DecDigits(s) == [i \in 1..Len(s) |-> DigitVal(s[i])]

\* The natural a decimal digit string denotes.
RECURSIVE DecToNat(_)
DecToNat(ds) ==
  IF ds = <<>> THEN <<>>
  ELSE MulAdd(DecToNat(SubSeq(ds, 1, Len(ds) - 1)), 10, ds[Len(ds)])

\* The decimal fraction 0.d1d2... times 1024: the new fraction digits and
\* the integer part (the next limb of the binary expansion).
RECURSIVE MulFrac(_)
MulFrac(ds) ==
  IF ds = <<>> THEN [f |-> <<>>, c |-> 0]
  ELSE LET t == MulFrac(Tail(ds))
           cur == Head(ds) * LimbBase + t.c
       IN  [f |-> <<cur % 10>> \o t.f, c |-> cur \div 10]

\* The next n limbs of the binary expansion of the fraction ds, and the rest.
RECURSIVE FracLimbs(_, _)
FracLimbs(ds, n) ==
  IF n <= 0 THEN [limbs |-> <<>>, rest |-> ds]
  ELSE LET d == MulFrac(ds)
           t == FracLimbs(d.f, n - 1)
       IN  [limbs |-> <<d.c>> \o t.limbs, rest |-> t.rest]

\* Limbs of fraction that always leave 54 significant bits: the leading
\* zero bits of a fraction of k digits are fewer than 4k.
FracLimbCount(k) == 6 + (4 * k) \div LimbBits + 1

\* The double nearest to the decimal int.frac (not zero).
NearestDouble(ip, fp) ==
  LET n == FracLimbCount(Len(fp))
      fl == FracLimbs(DecDigits(fp), n)
  IN  RoundDouble(DecToNat(DecDigits(ip)) \o fl.limbs, -(LimbBits * n),
                  ~AllZero(fl.rest))

\* The double product x * c, c a small integer a double holds exactly.
MulDouble(x, c) == RoundDouble(ShiftLeft(MulAdd(x.m, c, 0), 1), x.e - 1, FALSE)

\* Math.floor of a positive double, as a natural.
FloorNat(x) ==
  IF x.e >= 0 THEN ShiftLeft(x.m, x.e)
  ELSE IF -x.e >= MantissaBits THEN <<>>
  ELSE ShiftRight(x.m, -x.e).q

\* Number.prototype.toString of a non-negative integer below 10^21.
RECURSIVE NatToString(_)
NatToString(p) ==
  IF IsZeroNat(p) THEN <<>>
  ELSE LET d == DivSmall(Normalise(p), 10, 0)
       IN  NatToString(d.q) \o <<DigitChar(d.r)>>

IntegerToString(p) == IF IsZeroNat(p) THEN <<"0">> ELSE NatToString(p)

\* A JavaScript number that is NaN, zero or a positive double.
NaN == [nan |-> TRUE, m |-> <<>>, e |-> 0]
Zero == [nan |-> FALSE, m |-> <<>>, e |-> 0]
Positive(x) == [nan |-> FALSE, m |-> x.m, e |-> x.e]
IsZero(x) == ~x.nan /\ x.m = <<>>

\* parseFloat of a string without sign, exponent or white space.
ParseFloat(s) ==
  LET value == ParseDecimal(s)
  IN  IF value.nan THEN NaN
      ELSE IF AllZero(DecDigits(value.int \o value.frac)) THEN Zero
      ELSE Positive(NearestDouble(value.int, value.frac))

\* p + q + carry on naturals.
RECURSIVE AddNat(_, _, _)
AddNat(p, q, carry) ==
  IF p = <<>> /\ q = <<>> THEN <<carry>>
  ELSE LET a == IF p = <<>> THEN 0 ELSE p[Len(p)]
           b == IF q = <<>> THEN 0 ELSE q[Len(q)]
           cur == a + b + carry
       IN  AddNat(SubSeq(p, 1, Len(p) - 1), SubSeq(q, 1, Len(q) - 1),
                  cur \div LimbBase) \o <<cur % LimbBase>>

\* p * q on naturals.
RECURSIVE MulNat(_, _)
MulNat(p, q) ==
  IF q = <<>> THEN <<>>
  ELSE AddNat(MulNat(p, SubSeq(q, 1, Len(q) - 1)) \o <<0>>,
              MulAdd(p, q[Len(q)], 0), 0)

\* The double quotient x / c, c a small integer a double holds exactly.
DivDouble(x, c) ==
  IF x.nan THEN NaN
  ELSE IF IsZero(x) THEN Zero
  ELSE LET d == DivSmall(ShiftLeft(x.m, 2 * LimbBits), c, 0)
       IN  Positive(RoundDouble(d.q, x.e - 2 * LimbBits, d.r # 0))

\* The double product x * y.
TimesDouble(x, y) ==
  IF x.nan \/ y.nan THEN NaN
  ELSE IF IsZero(x) \/ IsZero(y) THEN Zero
  ELSE Positive(RoundDouble(MulNat(x.m, y.m), x.e + y.e, FALSE))

\* The double sum x + y.
PlusDouble(x, y) ==
  IF x.nan \/ y.nan THEN NaN
  ELSE IF IsZero(x) THEN y
  ELSE IF IsZero(y) THEN x
  ELSE LET e == IF x.e < y.e THEN x.e ELSE y.e
           sum == AddNat(ShiftLeft(x.m, x.e - e), ShiftLeft(y.m, y.e - e), 0)
       IN  Positive(RoundDouble(ShiftLeft(sum, 1), e - 1, FALSE))

\* The integer n for which n / 10^6 is nearest to the double x, the larger
\* of two equally near (Number.prototype.toFixed, step 10.a).
NearestMillionth(x) ==
  LET t == Normalise(MulAdd(x.m, 1000000, 0))
      s == -x.e
  IN  IF IsZero(x) THEN <<>>
      ELSE IF s <= 0 THEN ShiftLeft(t, x.e)
      ELSE IF s - 1 >= BitLen(t) THEN <<>>
      ELSE LET q == ShiftRight(t, s - 1).q
           IN  MulAdd(DivSmall(q, 2, 0).q, 1, q[Len(q)] % 2)

RECURSIVE PadLeft(_, _, _)
PadLeft(s, c, n) == IF Len(s) >= n THEN s ELSE PadLeft(<<c>> \o s, c, n)

\* x.toFixed(6) of a number that is NaN or at least 0 and below 10^21.
toFixed6(x) ==
  IF x.nan THEN <<"N", "a", "N">>
  ELSE LET digits == PadLeft(NatToString(NearestMillionth(x)), "0", 7)
       IN  SubSeq(digits, 1, Len(digits) - 6) \o <<".">>
             \o SubSeq(digits, Len(digits) - 5, Len(digits))

----------------------------------------------------------------------------
(* PaymentMiddleware.parseAmountToAtomicUnits *)

\* amount.replace(/[^0-9.]/g, '')
StripNonNumeric(s) == SelectSeq(s, LAMBDA c : IsDigit(c) \/ c = ".")

parseAmountToAtomicUnits(amount) ==
  LET cleanAmount == StripNonNumeric(amount)
      value == ParseDecimal(cleanAmount)
  IN  IF value.nan THEN STR_10000
      ELSE IF AllZero(DecDigits(value.int \o value.frac)) THEN <<"0">>
      ELSE IntegerToString(
             FloorNat(MulDouble(NearestDouble(value.int, value.frac), 1000000)))

----------------------------------------------------------------------------
(* PaymentMiddleware.calculateMarkup *)

\* markup.replace('%', ''): the first "%" removed.
RECURSIVE RemoveFirst(_, _)
RemoveFirst(s, c) ==
  IF s = <<>> THEN <<>>
  ELSE IF Head(s) = c THEN Tail(s)
  ELSE <<Head(s)>> \o RemoveFirst(Tail(s), c)

Includes(s, c) == \E i \in 1..Len(s) : s[i] = c

calculateMarkup(downstreamPrice, markup) ==
  LET downstreamValue == ParseFloat(StripNonNumeric(downstreamPrice))
  IN  IF Includes(markup, "%")
      THEN LET percentage == ParseFloat(RemoveFirst(markup, "%"))
               markupValue ==
                 TimesDouble(downstreamValue, DivDouble(percentage, 100))
           IN  <<"$">> \o toFixed6(PlusDouble(downstreamValue, markupValue))
      ELSE LET markupValue == ParseFloat(StripNonNumeric(markup))
           IN  <<"$">> \o toFixed6(PlusDouble(downstreamValue, markupValue))

----------------------------------------------------------------------------
(* The gateway configuration (GatewayConfig, ToolPricing, ApiKeyConfig) *)

Undefined == <<>>
Truthy(str) == str # <<>>
\* a || b on strings
OrElse(a, b) == IF Truthy(a) THEN a ELSE b

Tiers == {"premium", "basic"}

NoTiers == [t \in Tiers |-> Undefined]

\* ToolPricing; defined = FALSE stands for an absent pricing object.
NoPricing == [defined |-> FALSE, free |-> FALSE, x402 |-> Undefined,
              apiKeyTiers |-> NoTiers]
Pricing(free, x402, tiers) ==
  [defined |-> TRUE, free |-> free, x402 |-> x402, apiKeyTiers |-> tiers]

\* The index of the first element of seq that satisfies Test, 0 if none:
\* Array.prototype.find.
FindIndex(seq, Test(_)) ==
  IF \E i \in 1..Len(seq) : Test(seq[i])
  THEN CHOOSE i \in 1..Len(seq) :
         Test(seq[i]) /\ \A j \in 1..(i - 1) : ~Test(seq[j])
  ELSE 0

\* USDC contract addresses by network
USDC_ADDRESSES ==
  [n \in {"base-sepolia", "base", "ethereum", "optimism", "polygon"} |->
     CASE n = "base-sepolia" -> "0x036CbD53842c5426634e7929541eC2318f3dCF7e"
       [] n = "base" -> "0x833589fCD6eDb6E08f4c7C32D4f71b54bdA02913"
       [] n = "ethereum" -> "0xA0b86991c6218b36c1d19D4a2e9Eb0cE3606eB48"
       [] n = "optimism" -> "0x0b2C639c533813f4Aa9D7837CAf62653d097Ff85"
       [] n = "polygon" -> "0x3c499c542cEF5E3811e1192ce70d8cC03d5c3359"]

getUsdcAddress(network) ==
  IF network \in DOMAIN USDC_ADDRESSES THEN USDC_ADDRESSES[network]
  ELSE USDC_ADDRESSES["base-sepolia"]

\* config.payment?.network || 'base-sepolia'
ConfiguredNetwork(cfg) ==
  IF cfg.payment.defined /\ cfg.payment.network # ""
  THEN cfg.payment.network ELSE "base-sepolia"

PaymentEnabled(cfg) == cfg.payment.defined /\ cfg.payment.enabled

\* The constructor's apiKeyCache: the last entry of a key wins (Map.set).
ApiKeyKnown(cfg, key) ==
  cfg.payment.defined
  /\ \E i \in 1..Len(cfg.payment.apiKeys) : cfg.payment.apiKeys[i].key = key
ApiKeyTier(cfg, key) ==
  LET ks == cfg.payment.apiKeys
      i == CHOOSE i \in 1..Len(ks) :
             ks[i].key = key /\ \A j \in (i + 1)..Len(ks) : ks[j].key # key
  IN  ks[i].tier

getToolPricingMixedServers(cfg, toolName, serverId) ==
  LET hits == {<<i, j>> \in (1..Len(cfg.servers)) \X (1..2) :
                 /\ j <= Len(cfg.servers[i].tools)
                 /\ cfg.servers[i].tools[j].name = toolName
                 /\ cfg.servers[i].tools[j].pricing.defined}
  IN  IF hits # {}
      THEN LET h == CHOOSE h \in hits : \A g \in hits :
                      h[1] < g[1] \/ (h[1] = g[1] /\ h[2] <= g[2])
           IN  cfg.servers[h[1]].tools[h[2]].pricing
      ELSE NoPricing

getToolPricing(cfg, toolName, serverId) ==
  LET si == FindIndex(cfg.servers, LAMBDA sv : sv.name = serverId)
  IN  IF si = 0 THEN NoPricing
      ELSE LET serverConfig == cfg.servers[si]
               ti == FindIndex(serverConfig.tools, LAMBDA t : t.name = toolName)
           IN  IF ti # 0 /\ serverConfig.tools[ti].pricing.defined
               THEN serverConfig.tools[ti].pricing
               ELSE serverConfig.defaultPricing

getServerPaymentMode(cfg, serverId) ==
  LET si == FindIndex(cfg.servers, LAMBDA sv : sv.name = serverId)
  IN  IF si = 0 THEN "" ELSE cfg.servers[si].paymentMode

----------------------------------------------------------------------------
(* Request headers: Record<string, string>.  A header value is a sequence  *)
(* of tokens; hdr.present = FALSE stands for an absent headers argument.   *)

NoHeaders == [present |-> FALSE, h |-> <<>>]
Headers(h) == [present |-> TRUE, h |-> h]

\* headers[name]
Get(hdr, name) == IF name \in DOMAIN hdr.h THEN hdr.h[name] ELSE Undefined

\* value.replace('Bearer ', ''): the first occurrence is removed.
RemoveBearer(v) ==
  LET i == FindIndex(v, LAMBDA t : t = "Bearer ")
  IN  IF i = 0 THEN v ELSE SubSeq(v, 1, i - 1) \o SubSeq(v, i + 1, Len(v))

\* JSON.parse(Buffer.from(header, 'base64').toString('utf-8')): the payload,
\* or a SyntaxError for a header that does not decode to JSON.
DecodesToJson(v) == v \in {<<"PAY1">>, <<"PAY2">>}

----------------------------------------------------------------------------
(* PaymentMiddleware: PaymentVerificationResult values *)

Result(authorized, error, amount, method) ==
  [authorized |-> authorized, error |-> error, amount |-> amount,
   method |-> method]

FreeResult == Result(TRUE, Undefined, <<"0">>, "free")
Unauthorized == Result(FALSE, Undefined, Undefined, "")

\* verifyApiKey admitting a known key whose tier has no price.
verifyApiKeyAdmitsUntiered(cfg, hdr, pricing) ==
  IF ~hdr.present \/ ~pricing.defined THEN Unauthorized
  ELSE
    LET apiKey ==
          OrElse(Get(hdr, "x-eliza-api-key"),
          OrElse(Get(hdr, "X-ELIZA-API-KEY"),
          OrElse(RemoveBearer(Get(hdr, "authorization")),
                 RemoveBearer(Get(hdr, "Authorization")))))
    IN  IF ~Truthy(apiKey) THEN Unauthorized
        ELSE IF ~ApiKeyKnown(cfg, apiKey)
        THEN Result(FALSE, <<"Invalid API key">>, Undefined, "")
        ELSE
          LET tierPrice == pricing.apiKeyTiers[ApiKeyTier(cfg, apiKey)]
          IN  IF tierPrice = STR_free \/ tierPrice = STR_000 \/ tierPrice = STR_0
              THEN Result(TRUE, Undefined, <<"0">>, "apiKey")
              ELSE IF Truthy(tierPrice)
              THEN Result(TRUE, Undefined, tierPrice, "apiKey")
              ELSE Result(TRUE, Undefined, pricing.x402, "apiKey")

verifyApiKey(cfg, hdr, pricing) ==
  IF ~hdr.present \/ ~pricing.defined THEN Unauthorized
  ELSE
    LET apiKey ==
          OrElse(Get(hdr, "x-eliza-api-key"),
          OrElse(Get(hdr, "X-ELIZA-API-KEY"),
          OrElse(RemoveBearer(Get(hdr, "authorization")),
                 RemoveBearer(Get(hdr, "Authorization")))))
    IN  IF ~Truthy(apiKey) THEN Unauthorized
        ELSE IF ~ApiKeyKnown(cfg, apiKey)
        THEN Result(FALSE, <<"Invalid API key">>, Undefined, "")
        ELSE
          LET tierPrice == pricing.apiKeyTiers[ApiKeyTier(cfg, apiKey)]
          IN  IF tierPrice = STR_free \/ tierPrice = STR_000 \/ tierPrice = STR_0
              THEN Result(TRUE, Undefined, <<"0">>, "apiKey")
              ELSE IF Truthy(tierPrice)
              THEN Result(TRUE, Undefined, tierPrice, "apiKey")
              ELSE Unauthorized

\* The facilitator's answer to POST /verify, as fetch() presents it: a
\* rejected promise (kind "neterr", with the error's text), or a response
\* with a status and a body that is {verified: true}, some other JSON, or
\* no JSON at all.
FacilitatorResponses ==
  [kind : {"http"}, status : {200}, body : {"verified", "unverified", "garbage"},
   text : {"SyntaxError"}]
  \cup [kind : {"http"}, status : {400, 500}, body : {"unverified"},
        text : {"SyntaxError"}]
  \cup [kind : {"neterr"}, status : {0}, body : {"garbage"},
        text : {"ECONNREFUSED", "ETIMEDOUT"}]

ResponseOk(resp) == resp.status >= 200 /\ resp.status <= 299

NoFetch == [scheme |-> "", network |-> "", maxAmountRequired |-> Undefined,
            payTo |-> "", asset |-> "", paymentPayload |-> Undefined]

\* verifyX402Payment up to its fetch: either it returns (fetch = FALSE) or
\* it posts the request body and waits for the facilitator.
verifyX402Payment(cfg, hdr, pricing) ==
  IF ~hdr.present \/ ~pricing.defined \/ ~Truthy(pricing.x402)
  THEN [fetch |-> FALSE, result |-> Unauthorized, body |-> NoFetch]
  ELSE
    LET paymentHeader == OrElse(Get(hdr, "x-payment"), Get(hdr, "X-PAYMENT"))
    IN  IF ~Truthy(paymentHeader)
        THEN [fetch |-> FALSE, result |-> Unauthorized, body |-> NoFetch]
        ELSE IF ~DecodesToJson(paymentHeader)
        THEN [fetch |-> FALSE,
              result |-> Result(FALSE,
                           <<"Payment verification error: ", "SyntaxError">>,
                           Undefined, ""),
              body |-> NoFetch]
        ELSE [fetch |-> TRUE, result |-> Unauthorized,
              body |-> [scheme |-> "exact",
                        network |-> ConfiguredNetwork(cfg),
                        maxAmountRequired |-> parseAmountToAtomicUnits(pricing.x402),
                        payTo |-> cfg.payment.recipient,
                        asset |-> getUsdcAddress(ConfiguredNetwork(cfg)),
                        paymentPayload |-> paymentHeader]]

\* verifyX402Payment from the facilitator's answer on.
verifyX402PaymentResume(pricing, resp) ==
  IF resp.kind = "neterr"
  THEN Result(FALSE, <<"Payment verification error: ", resp.text>>, Undefined, "")
  ELSE IF ~ResponseOk(resp)
  THEN Result(FALSE, <<"Payment verification failed">>, Undefined, "")
  ELSE IF resp.body = "garbage"
  THEN Result(FALSE, <<"Payment verification error: ", resp.text>>, Undefined, "")
  ELSE IF resp.body = "verified"
  THEN Result(TRUE, Undefined, pricing.x402, "x402")
  ELSE Result(FALSE, <<"Payment verification failed">>, Undefined, "")

PaymentRequiredError(amount) ==
  <<"Payment required: ">> \o amount
    \o <<". Provide X-PAYMENT header (x402) or X-ELIZA-API-KEY.">>

verifyPaymentResumeLeaky(pricing, x402Result) ==
  IF x402Result.authorized \/ Truthy(x402Result.error) THEN x402Result
  ELSE LET amount == OrElse(pricing.x402, STR_001)
       IN  Result(FALSE, PaymentRequiredError(amount), amount, "x402")

\* verifyPayment from the result of verifyX402Payment on.
verifyPaymentResume(pricing, x402Result) ==
  IF x402Result.authorized THEN x402Result
  ELSE LET amount == OrElse(pricing.x402, STR_001)
       IN  Result(FALSE, PaymentRequiredError(amount), amount, "x402")

Returned(result) == [fetch |-> FALSE, result |-> result, body |-> NoFetch]

verifyPaymentNoFreeCheck(cfg, toolName, serverId, hdr) ==
  LET pricing == getToolPricing(cfg, toolName, serverId)
      apiKeyResult == verifyApiKey(cfg, hdr, pricing)
      x402 == verifyX402Payment(cfg, hdr, pricing)
  IN  IF ~PaymentEnabled(cfg) THEN Returned(FreeResult)
      ELSE IF ~pricing.defined THEN Returned(FreeResult)
      ELSE IF apiKeyResult.authorized THEN Returned(apiKeyResult)
      ELSE IF x402.fetch THEN x402
      ELSE Returned(verifyPaymentResume(pricing, x402.result))

\* verifyPayment up to the fetch of verifyX402Payment: either the result
\* (fetch = FALSE) or the request posted to the facilitator.
verifyPayment(cfg, toolName, serverId, hdr) ==
  LET pricing == getToolPricing(cfg, toolName, serverId)
      apiKeyResult == verifyApiKey(cfg, hdr, pricing)
      x402 == verifyX402Payment(cfg, hdr, pricing)
  IN  IF ~PaymentEnabled(cfg) THEN Returned(FreeResult)
      ELSE IF ~pricing.defined THEN Returned(FreeResult)
      ELSE IF pricing.free THEN Returned(FreeResult)
      ELSE IF apiKeyResult.authorized THEN Returned(apiKeyResult)
      ELSE IF x402.fetch THEN x402
      ELSE Returned(verifyPaymentResume(pricing, x402.result))

----------------------------------------------------------------------------
(* PaymentMiddleware.generatePaymentRequiredResponse *)

generatePaymentRequiredResponse(cfg, toolName, serverId) ==
  LET pricing == getToolPricing(cfg, toolName, serverId)
      amount == OrElse(pricing.x402, STR_001)
      network == ConfiguredNetwork(cfg)
  IN  [x402Version |-> 1,
       accepts |-> <<[scheme |-> "exact",
                      network |-> network,
                      maxAmountRequired |-> parseAmountToAtomicUnits(amount),
                      resource |-> <<"/tools/", toolName>>,
                      description |-> <<"Payment for MCP tool: ", toolName>>,
                      mimeType |-> "application/json",
                      payTo |-> cfg.payment.recipient,
                      maxTimeoutSeconds |-> 30,
                      asset |-> getUsdcAddress(network)]>>,
       error |-> <<"Payment required for tool '", toolName, "'. Amount: ">>
                   \o amount
                   \o <<". Use X-PAYMENT header (x402) or X-ELIZA-API-KEY.">>]

----------------------------------------------------------------------------
(* PaymentMiddleware.extractPaymentHeaders *)

\* The header names the function copies, in its order.
ForwardedNames ==
  {"x-payment", "X-Payment", "x-eliza-api-key", "X-ELIZA-API-KEY",
   "authorization", "Authorization"}

extractPaymentHeaders(hdr) ==
  IF ~hdr.present THEN <<>>
  ELSE LET names == {n \in ForwardedNames : Truthy(Get(hdr, n))}
       IN  [n \in names |-> hdr.h[n]]

----------------------------------------------------------------------------
(* The configurations and requests the model draws from *)

PremiumTier(price) == [t \in Tiers |-> IF t = "premium" THEN price ELSE Undefined]

ToolPricings ==
  {NoPricing,
   Pricing(TRUE, STR_001, NoTiers),
   Pricing(FALSE, STR_001, NoTiers),
   Pricing(FALSE, STR_010, PremiumTier(STR_free)),
   Pricing(FALSE, STR_010, PremiumTier(STR_0)),
   Pricing(FALSE, Undefined, PremiumTier(STR_005))}

DefaultPricings == {NoPricing, Pricing(FALSE, STR_005, NoTiers)}

ApiKeys == <<[key |-> <<"K1">>, tier |-> "premium"]>>

NoPayment == [defined |-> FALSE, enabled |-> FALSE, network |-> "",
              recipient |-> "", apiKeys |-> <<>>]
PaymentPolicy(enabled, network) ==
  [defined |-> TRUE, enabled |-> enabled, network |-> network,
   recipient |-> "0xAB01", apiKeys |-> ApiKeys]

PaymentPolicies ==
  {NoPayment, PaymentPolicy(FALSE, "base-sepolia"),
   PaymentPolicy(TRUE, "base-sepolia"), PaymentPolicy(TRUE, "base"),
   PaymentPolicy(TRUE, "solana"), PaymentPolicy(TRUE, "")}

\* Two upstreams that both have a tool t1; what s2 charges differs from
\* everything s1 can charge.
Server1(toolPricing, defaultPricing) ==
  [name |-> "s1",
   tools |-> <<[name |-> "t1", pricing |-> toolPricing],
               [name |-> "t2", pricing |-> NoPricing]>>,
   defaultPricing |-> defaultPricing,
   paymentMode |-> "passthrough"]
Server2 ==
  [name |-> "s2",
   tools |-> <<[name |-> "t1", pricing |-> Pricing(FALSE, STR_201, NoTiers)]>>,
   defaultPricing |-> NoPricing,
   paymentMode |-> ""]

\* Every pricing under the enforcing policy, and every policy over a tool
\* priced per call and a tool priced by tier only.
Configs ==
  {[payment |-> PaymentPolicy(TRUE, "base-sepolia"),
    servers |-> <<Server1(tp, dp), Server2>>] :
     tp \in ToolPricings, dp \in DefaultPricings}
  \cup
  {[payment |-> pp, servers |-> <<Server1(tp, NoPricing), Server2>>] :
     pp \in PaymentPolicies,
     tp \in {Pricing(FALSE, STR_001, NoTiers),
              Pricing(FALSE, Undefined, PremiumTier(STR_005))}}

ToolNames == {"t1", "t2"}
ServerIds == {"s1", "s2", "s9"}

ApiKeyHeaderNames == {"x-eliza-api-key", "X-ELIZA-API-KEY", "X-Eliza-Api-Key"}
AuthHeaderNames == {"authorization", "Authorization"}
PaymentHeaderNames == {"x-payment", "X-PAYMENT", "X-Payment"}
OtherHeaderNames == {"content-type"}
HeaderNames ==
  ApiKeyHeaderNames \cup AuthHeaderNames \cup PaymentHeaderNames
    \cup OtherHeaderNames

HeaderValues(name) ==
  IF name \in ApiKeyHeaderNames THEN {<<"K1">>, <<"BAD">>}
  ELSE IF name \in AuthHeaderNames THEN {<<"Bearer ", "K1">>}
  ELSE IF name \in PaymentHeaderNames THEN {<<"PAY1">>, <<"GARBAGE">>}
  ELSE {<<"application/json">>}

AllHeaderValues == UNION {HeaderValues(n) : n \in HeaderNames}

\* Every header bag of at most MaxHeaders headers, and the absent bag.
HeaderBags ==
  {NoHeaders} \cup
  UNION {{Headers(h) : h \in {f \in [names -> AllHeaderValues] :
                                \A n \in names : f[n] \in HeaderValues(n)}} :
         names \in {ns \in SUBSET HeaderNames : Cardinality(ns) <= MaxHeaders}}

\* Header names compared as HTTP compares them.
Lower(name) ==
  IF name \in ApiKeyHeaderNames THEN "x-eliza-api-key"
  ELSE IF name \in AuthHeaderNames THEN "authorization"
  ELSE IF name \in PaymentHeaderNames THEN "x-payment"
  ELSE name

----------------------------------------------------------------------------
(* PaywallGuard: prices in micro-USDC and the session ledger *)

\* Price strings of a server's paywall configuration
STR_50000 == <<"5", "0", "0", "0", "0">>
STR_150000 == <<"1", "5", "0", "0", "0", "0">>

\* BigInt(str) of a non-empty string: a value, or a SyntaxError.
BigIntParses(str) == \A i \in 1..Len(str) : IsDigit(str[i])
RECURSIVE BigInt(_)
BigInt(str) ==
  IF str = <<>> THEN 0
  ELSE 10 * BigInt(SubSeq(str, 1, Len(str) - 1)) + DigitVal(str[Len(str)])

\* bigint | null
Null == [null |-> TRUE, value |-> 0]
Price(value) == [null |-> FALSE, value |-> value]

\* Record<string, string> lookups of the pricing tables
NoTable == <<>>
Lookup(table, id) == IF id \in DOMAIN table THEN table[id] ELSE Undefined

NoPaywall ==
  [defined |-> FALSE, enabled |-> FALSE, network |-> "",
   perTool |-> NoTable, perResource |-> NoTable, perPrompt |-> NoTable,
   defaultPriceMicroUSDC |-> Undefined]

isPaywallEnabled(serverConfig) ==
  serverConfig.paywall.defined /\ serverConfig.paywall.enabled

\* getRequiredPriceMicroUSDC taking the default price before the item's.
getRequiredPriceMicroUSDCDefaultFirst(kind, id, serverConfig) ==
  IF ~isPaywallEnabled(serverConfig) THEN Null
  ELSE
    LET pricing == serverConfig.paywall
        specific == CASE kind = "tool" -> Lookup(pricing.perTool, id)
                      [] kind = "resource" -> Lookup(pricing.perResource, id)
                      [] kind = "prompt" -> Lookup(pricing.perPrompt, id)
        priceStr == OrElse(pricing.defaultPriceMicroUSDC, specific)
    IN  IF ~Truthy(priceStr) THEN Null
        ELSE IF ~BigIntParses(priceStr) THEN Null
        ELSE IF BigInt(priceStr) > 0 THEN Price(BigInt(priceStr))
        ELSE Null

getRequiredPriceMicroUSDC(kind, id, serverConfig) ==
  IF ~isPaywallEnabled(serverConfig) THEN Null
  ELSE
    LET pricing == serverConfig.paywall
        specific == CASE kind = "tool" -> Lookup(pricing.perTool, id)
                      [] kind = "resource" -> Lookup(pricing.perResource, id)
                      [] kind = "prompt" -> Lookup(pricing.perPrompt, id)
        priceStr == OrElse(specific, pricing.defaultPriceMicroUSDC)
    IN  IF ~Truthy(priceStr) THEN Null
        ELSE IF ~BigIntParses(priceStr) THEN Null
        ELSE IF BigInt(priceStr) > 0 THEN Price(BigInt(priceStr))
        ELSE Null

\* Map<string, PaywallSession>; a session's expiresAt is kept as whether
\* the clock has passed it.
NoSessions == <<>>
MapSet(map, key, value) ==
  [k \in DOMAIN map \cup {key} |-> IF k = key THEN value ELSE map[k]]
MapDelete(map, key) == [k \in DOMAIN map \ {key} |-> map[k]]

NoStats == [totalPayments |-> 0, totalAmount |-> 0, activeSessions |-> 0,
            averagePayment |-> 0]

\* updateStats, but for paymentsToday, which depends on the day.
updateStats(stats, sessions) ==
  [stats EXCEPT !.activeSessions = Cardinality(DOMAIN sessions),
                !.averagePayment = IF stats.totalPayments > 0
                                   THEN stats.totalAmount \div stats.totalPayments
                                   ELSE stats.averagePayment]

\* isSessionAuthorized without the test of expiresAt.
isSessionAuthorizedIgnoresExpiry(sessions, stats, sessionId, price) ==
  IF price <= 0
  THEN [value |-> TRUE, sessions |-> sessions, stats |-> stats]
  ELSE IF sessionId \notin DOMAIN sessions
  THEN [value |-> FALSE, sessions |-> sessions, stats |-> stats]
  ELSE [value |-> sessions[sessionId].remainingBalance >= price,
        sessions |-> sessions, stats |-> stats]

\* Each ledger operation gives the value it returns and the ledger after it.
isSessionAuthorized(sessions, stats, sessionId, price) ==
  IF price <= 0
  THEN [value |-> TRUE, sessions |-> sessions, stats |-> stats]
  ELSE IF sessionId \notin DOMAIN sessions
  THEN [value |-> FALSE, sessions |-> sessions, stats |-> stats]
  ELSE IF sessions[sessionId].expired
  THEN [value |-> FALSE, sessions |-> MapDelete(sessions, sessionId),
        stats |-> updateStats(stats, MapDelete(sessions, sessionId))]
  ELSE [value |-> sessions[sessionId].remainingBalance >= price,
        sessions |-> sessions, stats |-> stats]

\* recordAuthorization setting the balance of an existing session to the
\* new receipt instead of adding to it.
recordAuthorizationOverwrites(sessions, stats, sessionId, receiptAmount, amount) ==
  LET session ==
        IF sessionId \notin DOMAIN sessions
        THEN [authorizedAmount |-> receiptAmount,
              remainingBalance |-> receiptAmount,
              receipts |-> <<receiptAmount>>,
              expired |-> FALSE]
        ELSE [authorizedAmount |-> sessions[sessionId].authorizedAmount + receiptAmount,
              remainingBalance |-> receiptAmount,
              receipts |-> Append(sessions[sessionId].receipts, receiptAmount),
              expired |-> FALSE]
      used == IF amount > 0
              THEN [session EXCEPT !.remainingBalance = @ - amount]
              ELSE session
      after == MapSet(sessions, sessionId, used)
      counted == [stats EXCEPT !.totalPayments = @ + 1,
                               !.totalAmount = @ + receiptAmount]
  IN  [sessions |-> after, stats |-> updateStats(counted, after)]

recordAuthorization(sessions, stats, sessionId, receiptAmount, amount) ==
  LET session ==
        IF sessionId \notin DOMAIN sessions
        THEN [authorizedAmount |-> receiptAmount,
              remainingBalance |-> receiptAmount,
              receipts |-> <<receiptAmount>>,
              expired |-> FALSE]
        ELSE [authorizedAmount |-> sessions[sessionId].authorizedAmount + receiptAmount,
              remainingBalance |-> sessions[sessionId].remainingBalance + receiptAmount,
              receipts |-> Append(sessions[sessionId].receipts, receiptAmount),
              expired |-> FALSE]
      used == IF amount > 0
              THEN [session EXCEPT !.remainingBalance = @ - amount]
              ELSE session
      after == MapSet(sessions, sessionId, used)
      counted == [stats EXCEPT !.totalPayments = @ + 1,
                               !.totalAmount = @ + receiptAmount]
  IN  [sessions |-> after, stats |-> updateStats(counted, after)]

\* deductFromSession without the comparison of the balance.
deductFromSessionUnchecked(sessions, sessionId, amount) ==
  IF amount <= 0 THEN [value |-> TRUE, sessions |-> sessions]
  ELSE IF sessionId \notin DOMAIN sessions
  THEN [value |-> FALSE, sessions |-> sessions]
  ELSE [value |-> TRUE,
        sessions |-> [sessions EXCEPT ![sessionId].remainingBalance = @ - amount]]

deductFromSession(sessions, sessionId, amount) ==
  IF amount <= 0 THEN [value |-> TRUE, sessions |-> sessions]
  ELSE IF sessionId \notin DOMAIN sessions
          \/ sessions[sessionId].remainingBalance < amount
  THEN [value |-> FALSE, sessions |-> sessions]
  ELSE [value |-> TRUE,
        sessions |-> [sessions EXCEPT ![sessionId].remainingBalance = @ - amount]]

getSessionBalance(sessions, sessionId) ==
  IF sessionId \notin DOMAIN sessions \/ sessions[sessionId].expired THEN 0
  ELSE sessions[sessionId].remainingBalance

cleanupExpiredSessions(sessions, stats) ==
  LET kept == [k \in {j \in DOMAIN sessions : ~sessions[j].expired} |-> sessions[k]]
  IN  [sessions |-> kept,
       stats |-> IF DOMAIN kept # DOMAIN sessions THEN updateStats(stats, kept)
                 ELSE stats]

----------------------------------------------------------------------------
(* State *)

VARIABLES
  config,      \* the GatewayConfig the middleware was constructed with
  pc,          \* where the admission of the current request stands
  req,         \* the current request: tool, server, headers
  pricing,     \* verifyPayment's local: the pricing resolved for the request
  result,      \* verifyPayment's PaymentVerificationResult
  fetches,     \* the bodies posted to the facilitator for this request
  facResp,     \* the facilitator's answer, once given
  challenge,   \* the PaymentRequirements sent for this request, if any
  forwarded,   \* the headers sent upstream for this request, if any
  amountIn,    \* parseAmountToAtomicUnits on its own: the argument
  amountOut,   \* and the value returned
  markupIn,    \* calculateMarkup on its own: the arguments
  markupOut,   \* and the value returned
  ledgerCall,  \* a PaywallGuard method called on its own: the method, its
               \* arguments, the sessions before the call, the value returned
  outbound,    \* one request of an upstream session through the x402 fetch
  run,         \* the gateway's start, stop and registry rebuild in progress
  httpLedger,  \* the sessions and stats of the HTTP front-end's own
               \* PaywallGuard
  audit,       \* the payments recorded and the amounts spent so far, as the
               \* callers of the ledger saw them
  frontEnd,    \* which GatewayServer runs: "core" or "ledger"
  connections, \* the connection to each upstream: its status, and whether
               \* the client behind it still reaches the upstream
  registry,    \* the registry's published snapshot
  sessions,    \* PaywallGuard.sessions
  stats,       \* PaywallGuard.stats
  calls,       \* the handler invocations in flight, with their locals
  reply        \* the last answer given to the client

vars == <<config, pc, req, pricing, result, fetches, facResp, challenge,
          forwarded, amountIn, amountOut, markupIn, markupOut, ledgerCall,
          audit, outbound, run, httpLedger, frontEnd,
          connections, registry, sessions, stats, calls, reply>>

mediatorVars ==
  <<config, pc, req, pricing, result, fetches, facResp, challenge, forwarded>>
atomicVars ==
  <<amountIn, amountOut, markupIn, markupOut, ledgerCall, audit, outbound, run,
    httpLedger>>
gatewayVars ==
  <<frontEnd, connections, registry, sessions, stats, calls, reply>>

NoResult == Result(FALSE, Undefined, Undefined, "none")
NoResp == [kind |-> "none", status |-> 0, body |-> "", text |-> ""]
NoReq == [tool |-> "", server |-> "", hdr |-> NoHeaders]
NotForwarded == [sent |-> FALSE, headers |-> <<>>]

MediatorIdle ==
  /\ pc = "idle"
  /\ req = NoReq
  /\ pricing = NoPricing
  /\ result = NoResult
  /\ fetches = <<>>
  /\ facResp = NoResp
  /\ challenge = <<>>
  /\ forwarded = NotForwarded

NoMarkup == [downstreamPrice |-> <<>>, markup |-> <<>>]

NoLedgerCall == [op |-> "", args |-> <<>>, before |-> <<>>, value |-> <<>>]
NoAudit == [spent |-> <<>>, count |-> 0, sum |-> 0]
NoOutcome == [kind |-> "", transient |-> FALSE, message |-> ""]
NoOutbound == [pc |-> "Idle", maxValue |-> 0, required |-> <<>>, sends |-> 0,
               signed |-> <<>>, outcome |-> NoOutcome]
\* A registry rebuild that is not under way: the sessions it asks, the
\* list it is at, the entries it has collected.
NoBuild == [connected |-> {}, stage |-> "idle", entries |-> {}]
\* The gateway before start(): its connect tasks, the rebuild start()
\* waits for, the health-check passes under way (oldest first, each with
\* its rebuild and the upstreams it reconnected), how start() ended.
\* reconnected names the upstreams that a pass now over reconnected; an
\* upstream is in it and in a pass's set for as long as it stays up.
NoRun == [pc |-> "constructed", tasks |-> <<>>, built |-> NoBuild,
          passes |-> <<>>, reconnected |-> {}, started |-> ""]

\* The ledger of a PaywallGuard just constructed.
NoHttpLedger == [sessions |-> NoSessions, stats |-> NoStats]

AtomicIdle ==
  /\ amountIn = <<>> /\ amountOut = <<>>
  /\ markupIn = NoMarkup /\ markupOut = <<>>
  /\ ledgerCall = NoLedgerCall /\ audit = NoAudit
  /\ outbound = NoOutbound /\ run = NoRun /\ httpLedger = NoHttpLedger

NoItem == [kind |-> "", name |-> "", originalName |-> "", serverId |-> ""]
\* The request a handler sends upstream: to which upstream, under what name.
NoSent == [serverId |-> "", name |-> ""]
FreeSlot == [pc |-> "free", item |-> NoItem, requiredPrice |-> Null,
             isAuthorized |-> FALSE, sent |-> NoSent]
\* What an upstream answers: a response (ok) or an error, and its content.
NoAnswer == [serverId |-> "", ok |-> FALSE, said |-> <<>>]
\* An answer to the client: the name asked for, the outcome, the response
\* or error message returned, and the upstream's answer it was made from.
Reply(to, outcome, body, answer) ==
  [to |-> to, outcome |-> outcome, body |-> body, answer |-> answer]
\* An answer the gateway gives without an upstream's.
GatewayReply(to, outcome) == Reply(to, outcome, <<>>, NoAnswer)
NoReply == Reply("", "", <<>>, NoAnswer)

\* A connection whose status is 'connected' and whose client works, and one
\* whose status is 'error'.  failedCall records that a forwarded call has
\* failed on the connection's client because the client no longer reaches
\* the upstream.
\* client is the connection's Client ('null' before the first connect,
\* 'open' once connected) and lastError the message of the failure that
\* parked it ("" while there is none).
Live == [status |-> "connected", alive |-> TRUE, failedCall |-> FALSE,
         client |-> "open", lastError |-> ""]
Parked == [status |-> "error", alive |-> FALSE, failedCall |-> FALSE,
           client |-> "null", lastError |-> "connect failed"]

\* The registry snapshot built while every upstream is connected.
RegistrySnapshot ==
  {[kind |-> "tool", name |-> "t1", originalName |-> "t1", serverId |-> "s1"],
   [kind |-> "tool", name |-> "s2:t1", originalName |-> "t1", serverId |-> "s2"],
   [kind |-> "resource", name |-> "r1", originalName |-> "r1", serverId |-> "s1"],
   [kind |-> "prompt", name |-> "p1", originalName |-> "p1", serverId |-> "s1"]}


GatewayIdle ==
  /\ frontEnd = "core"
  /\ connections = [id \in {"s1", "s2"} |-> Live]
  /\ registry = RegistrySnapshot
  /\ sessions = NoSessions
  /\ stats = NoStats
  /\ calls = [c \in 1..MaxCalls |-> FreeSlot]
  /\ reply = NoReply

Init ==
  /\ config \in Configs
  /\ MediatorIdle
  /\ AtomicIdle
  /\ GatewayIdle

----------------------------------------------------------------------------
(* Admission of one request by the payment middleware *)

\* verifyPayment is called for some tool of some upstream with some headers
\* and runs until it returns or awaits the facilitator.
Receive ==
  /\ pc = "idle"
  /\ \E tool \in ToolNames, server \in ServerIds, hdr \in HeaderBags :
       LET v == verifyPayment(config, tool, server, hdr)
       IN  /\ req' = [tool |-> tool, server |-> server, hdr |-> hdr]
           /\ pricing' = IF PaymentEnabled(config)
                         THEN getToolPricing(config, tool, server)
                         ELSE NoPricing
           /\ fetches' = IF v.fetch THEN <<v.body>> ELSE <<>>
           /\ result' = IF v.fetch THEN NoResult ELSE v.result
           /\ pc' = IF v.fetch THEN "awaitFacilitator" ELSE "done"
  /\ UNCHANGED <<config, facResp, challenge, forwarded, atomicVars, gatewayVars>>

\* The facilitator answers (or the fetch fails) and verifyPayment returns.
FacilitatorResponds ==
  /\ pc = "awaitFacilitator"
  /\ \E resp \in FacilitatorResponses :
       /\ result' = verifyPaymentResume(pricing,
                       verifyX402PaymentResume(pricing, resp))
       /\ facResp' = resp
  /\ pc' = "done"
  /\ UNCHANGED <<config, req, pricing, fetches, challenge, forwarded,
                 atomicVars, gatewayVars>>

\* A call that was not authorized is answered with the payment challenge.
Challenge ==
  /\ pc = "done"
  /\ ~result.authorized
  /\ challenge' = <<generatePaymentRequiredResponse(config, req.tool, req.server)>>
  /\ pc' = "replied"
  /\ UNCHANGED <<config, req, pricing, result, fetches, facResp, forwarded,
                 atomicVars, gatewayVars>>

\* An authorized call goes upstream; in passthrough mode with the client's
\* payment headers.
Forward ==
  /\ pc = "done"
  /\ result.authorized
  /\ forwarded' =
       [sent |-> TRUE,
        headers |-> IF getServerPaymentMode(config, req.server) = "passthrough"
                    THEN extractPaymentHeaders(req.hdr) ELSE <<>>]
  /\ pc' = "replied"
  /\ UNCHANGED <<config, req, pricing, result, fetches, facResp, challenge,
                 atomicVars, gatewayVars>>

\* The request is over; the middleware keeps nothing of it.
Finish ==
  /\ pc = "replied"
  /\ pc' = "idle"
  /\ req' = NoReq
  /\ pricing' = NoPricing
  /\ result' = NoResult
  /\ fetches' = <<>>
  /\ facResp' = NoResp
  /\ challenge' = <<>>
  /\ forwarded' = NotForwarded
  /\ UNCHANGED <<config, atomicVars, gatewayVars>>

Next ==
  \/ Receive
  \/ FacilitatorResponds
  \/ Challenge
  \/ Forward
  \/ Finish

Spec == Init /\ [][Next]_vars

----------------------------------------------------------------------------
(* parseAmountToAtomicUnits on its own *)

AmountChars == {"$", "0", "1", "2", "9", ".", "x"}

\* Every string of at most MaxLen of these characters.
Amounts == UNION {[1..n -> AmountChars] : n \in 0..MaxLen}

InitAtomic ==
  /\ config = [payment |-> NoPayment, servers |-> <<Server1(NoPricing, NoPricing), Server2>>]
  /\ MediatorIdle
  /\ amountIn \in Amounts
  /\ amountOut = <<>>
  /\ markupIn = NoMarkup /\ markupOut = <<>>
  /\ ledgerCall = NoLedgerCall /\ audit = NoAudit
  /\ outbound = NoOutbound /\ run = NoRun /\ httpLedger = NoHttpLedger
  /\ GatewayIdle

Convert ==
  /\ amountOut = <<>>
  /\ amountOut' = parseAmountToAtomicUnits(amountIn)
  /\ UNCHANGED <<mediatorVars, outbound, run, httpLedger, amountIn, markupIn, markupOut, ledgerCall,
                 audit, gatewayVars>>

NextAtomic == Convert

SpecAtomic == InitAtomic /\ [][NextAtomic]_vars

----------------------------------------------------------------------------
(* calculateMarkup on its own *)

\* The decimals of a downstream price: every string of at most MaxDecimals
\* of these digits.
DecimalChars == {"0", "1", "3"}
Decimals == UNION {[1..n -> DecimalChars] : n \in 0..MaxDecimals}

DownstreamPrices ==
  {<<"$", w>> : w \in {"0", "1"}}
    \cup {<<"$", w, ".">> \o d : w \in {"0", "1"}, d \in Decimals \ {<<>>}}
    \cup {STR_free}

Markups ==
  { <<"5", "%">>, <<"2", "0", "%">>, <<"5", "0", "%">>,
    <<"1", "2", ".", "5", "%">>, <<"$", "5", "%">>, <<"2", "0">>,
    STR_005, STR_001, <<"$", "0", ".", "0", "0", "0", "0", "0", "1", "5">> }

InitMarkup ==
  /\ config = [payment |-> NoPayment, servers |-> <<Server1(NoPricing, NoPricing), Server2>>]
  /\ MediatorIdle
  /\ amountIn = <<>> /\ amountOut = <<>>
  /\ markupIn \in [downstreamPrice : DownstreamPrices, markup : Markups]
  /\ markupOut = <<>>
  /\ ledgerCall = NoLedgerCall /\ audit = NoAudit
  /\ outbound = NoOutbound /\ run = NoRun /\ httpLedger = NoHttpLedger
  /\ GatewayIdle

Markup ==
  /\ markupOut = <<>>
  /\ markupOut' = calculateMarkup(markupIn.downstreamPrice, markupIn.markup)
  /\ UNCHANGED <<mediatorVars, outbound, run, httpLedger, amountIn, amountOut, markupIn, ledgerCall,
                 audit, gatewayVars>>

NextMarkup == Markup

SpecMarkup == InitMarkup /\ [][NextMarkup]_vars

----------------------------------------------------------------------------
(* The gateway front-ends: GatewayServer of core/gateway.ts ("core") and   *)
(* GatewayServer of paywall-guard.ts ("ledger")                            *)

\* registry.findTool / findResource / findPrompt
find(kind, name) ==
  IF \E e \in registry : e.kind = kind /\ e.name = name
  THEN CHOOSE e \in registry : e.kind = kind /\ e.name = name
  ELSE NoItem

\* connection && connection.status === 'connected'
Connected(serverId) ==
  serverId \in DOMAIN connections
    /\ connections[serverId].status = "connected"

GatewayServer1(defaultPrice) ==
  [name |-> "s1",
   tools |-> <<[name |-> "t1", pricing |-> Pricing(FALSE, STR_001, NoTiers)]>>,
   defaultPricing |-> NoPricing,
   paymentMode |-> "",
   paywall |-> [defined |-> TRUE, enabled |-> TRUE, network |-> "base-sepolia",
                perTool |-> [id \in {"t1"} |-> STR_50000],
                perResource |-> [id \in {"r1"} |-> <<"0">>],
                perPrompt |-> NoTable,
                defaultPriceMicroUSDC |-> defaultPrice]]
GatewayServer2 ==
  [name |-> "s2",
   tools |-> <<[name |-> "t1", pricing |-> Pricing(FALSE, STR_201, NoTiers)]>>,
   defaultPricing |-> NoPricing,
   paymentMode |-> "",
   paywall |-> NoPaywall]

GatewayConfigs ==
  {[payment |-> PaymentPolicy(TRUE, "base-sepolia"),
    servers |-> <<GatewayServer1(defaultPrice), GatewayServer2>>] :
     defaultPrice \in {Undefined, STR_150000, <<"0">>}}

ToolRequestNames == {"t1", "s2:t1", "nope"}
ResourceRequestUris == {"r1", "nope"}
PromptRequestNames == {"p1", "nope"}
PaywallToolNames ==
  {"gateway:paywall:get-pricing", "gateway:paywall:authorize",
   "gateway:paywall:bogus"}
AuthorizeArgs ==
  [xPayment : {Undefined, <<"PAY1">>}, token : {Undefined, <<"JWT">>},
   sessionId : {"", "other"}]

\* PaywallGuard.generateSessionId('gateway-session'), made at construction
currentSessionId == "cur"

InitGateway ==
  /\ config \in GatewayConfigs
  /\ pc = "idle" /\ req = NoReq /\ pricing = NoPricing /\ result = NoResult
  /\ fetches = <<>> /\ facResp = NoResp /\ challenge = <<>>
  /\ forwarded = NotForwarded
  /\ AtomicIdle
  /\ frontEnd \in {"core", "ledger"}
  /\ connections \in [{"s1", "s2"} -> {Live, Parked}]
  /\ registry = RegistrySnapshot
  /\ sessions = NoSessions
  /\ stats = NoStats
  /\ calls = [c \in 1..MaxCalls |-> FreeSlot]
  /\ reply = NoReply

HasFreeCall == \E c \in 1..MaxCalls : calls[c].pc = "free"
FreeCall ==
  CHOOSE c \in 1..MaxCalls :
    calls[c].pc = "free" /\ \A d \in 1..(c - 1) : calls[d].pc # "free"

\* The request sent upstream under the exposed name instead of the
\* original one.
ForwardedExposedName(item) == [serverId |-> item.serverId, name |-> item.name]

\* connection.client.callTool({ name: tool.originalName, ... }), readResource
\* and getPrompt alike: the request goes to the connection of the entry's
\* serverId under the entry's original name.
Forwarded(item) == [serverId |-> item.serverId, name |-> item.originalName]

Upstream(item) ==
  [pc |-> "upstream", item |-> item, requiredPrice |-> Null,
   isAuthorized |-> FALSE, sent |-> Forwarded(item)]

\* A handler of core/gateway.ts that looks the connection up before it
\* tests the registry's answer.
CoreHandleChecksSwapped(kind, name) ==
  LET item == find(kind, name)
  IN  /\ frontEnd = "core"
      /\ HasFreeCall
      /\ IF ~Connected(item.serverId)
         THEN /\ reply' = GatewayReply(name, "NotConnected")
              /\ UNCHANGED calls
         ELSE IF item = NoItem
         THEN /\ reply' = GatewayReply(name, "MethodNotFound")
              /\ UNCHANGED calls
         ELSE /\ calls' = [calls EXCEPT ![FreeCall] = Upstream(item)]
              /\ UNCHANGED reply
      /\ UNCHANGED <<mediatorVars, atomicVars, frontEnd, connections, registry, sessions, stats>>

\* A handler of core/gateway.ts: resolve the name, check the connection,
\* call the upstream under the original name.
CoreHandle(kind, name) ==
  LET item == find(kind, name)
  IN  /\ frontEnd = "core"
      /\ HasFreeCall
      /\ IF item = NoItem
         THEN /\ reply' = GatewayReply(name, "MethodNotFound")
              /\ UNCHANGED calls
         ELSE IF ~Connected(item.serverId)
         THEN /\ reply' = GatewayReply(name, "NotConnected")
              /\ UNCHANGED calls
         ELSE /\ calls' = [calls EXCEPT ![FreeCall] = Upstream(item)]
              /\ UNCHANGED reply
      /\ UNCHANGED <<mediatorVars, atomicVars, frontEnd, connections, registry, sessions, stats>>

CoreCallTool == \E name \in ToolRequestNames \cup PaywallToolNames : CoreHandle("tool", name)
CoreReadResource == \E uri \in ResourceRequestUris : CoreHandle("resource", uri)
CoreGetPrompt == \E name \in PromptRequestNames : CoreHandle("prompt", name)

\* A handler of paywall-guard.ts that does not look at the connection.
LedgerHandleNoConnectionCheck(kind, name) ==
  LET item == find(kind, name)
      si == FindIndex(config.servers, LAMBDA sv : sv.name = item.serverId)
      requiredPrice ==
        IF si = 0 THEN Null
        ELSE getRequiredPriceMicroUSDC(kind, item.originalName, config.servers[si])
      check == isSessionAuthorized(sessions, stats, currentSessionId,
                                   requiredPrice.value)
  IN  /\ frontEnd = "ledger"
      /\ HasFreeCall
      /\ IF item = NoItem
         THEN /\ reply' = GatewayReply(name, "MethodNotFound")
              /\ UNCHANGED <<calls, sessions, stats>>
         ELSE IF ~requiredPrice.null /\ requiredPrice.value > 0
         THEN /\ calls' = [calls EXCEPT ![FreeCall] =
                             [pc |-> "checked", item |-> item,
                              requiredPrice |-> requiredPrice,
                              isAuthorized |-> check.value, sent |-> NoSent]]
              /\ sessions' = check.sessions
              /\ stats' = check.stats
              /\ UNCHANGED reply
         ELSE /\ calls' = [calls EXCEPT ![FreeCall] = Upstream(item)]
              /\ UNCHANGED <<reply, sessions, stats>>
      /\ UNCHANGED <<mediatorVars, atomicVars, frontEnd, connections, registry>>

\* A handler of paywall-guard.ts up to its first await: resolve the name,
\* check the connection, price the item and, for a priced item, ask the
\* ledger whether the session is authorized.
LedgerHandle(kind, name) ==
  LET item == find(kind, name)
      si == FindIndex(config.servers, LAMBDA sv : sv.name = item.serverId)
      requiredPrice ==
        IF si = 0 THEN Null
        ELSE getRequiredPriceMicroUSDC(kind, item.originalName, config.servers[si])
      check == isSessionAuthorized(sessions, stats, currentSessionId,
                                   requiredPrice.value)
  IN  /\ frontEnd = "ledger"
      /\ HasFreeCall
      /\ IF item = NoItem
         THEN /\ reply' = GatewayReply(name, "MethodNotFound")
              /\ UNCHANGED <<calls, sessions, stats>>
         ELSE IF ~Connected(item.serverId)
         THEN /\ reply' = GatewayReply(name, "NotConnected")
              /\ UNCHANGED <<calls, sessions, stats>>
         ELSE IF ~requiredPrice.null /\ requiredPrice.value > 0
         THEN /\ calls' = [calls EXCEPT ![FreeCall] =
                             [pc |-> "checked", item |-> item,
                              requiredPrice |-> requiredPrice,
                              isAuthorized |-> check.value, sent |-> NoSent]]
              /\ sessions' = check.sessions
              /\ stats' = check.stats
              /\ UNCHANGED reply
         ELSE /\ calls' = [calls EXCEPT ![FreeCall] = Upstream(item)]
              /\ UNCHANGED <<reply, sessions, stats>>
      /\ UNCHANGED <<mediatorVars, atomicVars, frontEnd, connections, registry>>

LedgerCallTool == \E name \in ToolRequestNames : LedgerHandle("tool", name)
LedgerReadResource == \E uri \in ResourceRequestUris : LedgerHandle("resource", uri)
LedgerGetPrompt == \E name \in PromptRequestNames : LedgerHandle("prompt", name)

\* The handler resumes with the ledger's answer: the payment-required error,
\* or the deduction, whose result it does not read.
LedgerAfterCheck ==
  \E c \in 1..MaxCalls :
    /\ calls[c].pc = "checked"
    /\ IF ~calls[c].isAuthorized
       THEN /\ reply' = GatewayReply(calls[c].item.name, "PaymentRequired")
            /\ calls' = [calls EXCEPT ![c] = FreeSlot]
            /\ UNCHANGED sessions
       ELSE /\ sessions' = deductFromSession(sessions, currentSessionId,
                                             calls[c].requiredPrice.value).sessions
            /\ calls' = [calls EXCEPT ![c].pc = "deducted"]
            /\ UNCHANGED reply
    /\ UNCHANGED <<mediatorVars, atomicVars, frontEnd, connections, registry, stats>>

\* The handler resumes after the deduction and calls the upstream.
LedgerInvoke ==
  \E c \in 1..MaxCalls :
    /\ calls[c].pc = "deducted"
    /\ calls' = [calls EXCEPT ![c].pc = "upstream",
                              ![c].sent = Forwarded(calls[c].item)]
    /\ UNCHANGED <<mediatorVars, atomicVars, frontEnd, connections, registry, sessions,
                   stats, reply>>

\* What an upstream may answer to a request: a response or an error.
Answers ==
  {[ok |-> TRUE, said |-> <<"R1">>], [ok |-> FALSE, said |-> <<"E1">>]}

\* `Tool execution failed: ${error}` and its like for resources and prompts
FailurePrefix(kind) ==
  CASE kind = "tool" -> "Tool execution failed: "
    [] kind = "resource" -> "Resource read failed: "
    [] kind = "prompt" -> "Prompt get failed: "

\* return response, or the catch clause: throw new McpError(InternalError,
\* `... failed: ${error}`)
HandlerReturns(call, answer) ==
  LET from == [serverId |-> call.sent.serverId, ok |-> answer.ok,
               said |-> answer.said]
  IN  IF answer.ok
      THEN Reply(call.item.name, "Result", answer.said, from)
      ELSE Reply(call.item.name, "ExecutionFailed",
                 <<FailurePrefix(call.item.kind)>> \o answer.said, from)

\* The client that a call was sent on still reaches its upstream: the
\* connection has not been closed and its upstream is up.
Reaches(serverId) ==
  serverId \in DOMAIN connections /\ connections[serverId].alive

\* The upstream answers or fails and the handler returns.  A client that
\* no longer reaches its upstream fails every request.
UpstreamAnswers ==
  \E c \in 1..MaxCalls :
    /\ calls[c].pc = "upstream"
    /\ \E answer \in Answers :
         /\ answer.ok => Reaches(calls[c].sent.serverId)
         /\ reply' = HandlerReturns(calls[c], answer)
    /\ connections' =
         IF Reaches(calls[c].sent.serverId)
              \/ calls[c].sent.serverId \notin DOMAIN connections
         THEN connections
         ELSE [connections EXCEPT ![calls[c].sent.serverId].failedCall = TRUE]
    /\ calls' = [calls EXCEPT ![c] = FreeSlot]
    /\ UNCHANGED <<mediatorVars, atomicVars, frontEnd, registry, sessions, stats>>

\* handlePaywallTool(name, args) and handleAuthorizePayment of
\* paywall-guard.ts.
handlePaywallTool(name, args) ==
    LET targetSessionId == IF args.sessionId # "" THEN args.sessionId
                           ELSE currentSessionId
        recorded == recordAuthorization(sessions, stats, targetSessionId, 100000, 0)
    IN  /\ frontEnd = "ledger"
        /\ IF name = "gateway:paywall:get-pricing"
           THEN /\ reply' = GatewayReply(name, "Pricing")
                /\ UNCHANGED <<sessions, stats>>
           ELSE IF name # "gateway:paywall:authorize"
           THEN /\ reply' = GatewayReply(name, "MethodNotFound")
                /\ UNCHANGED <<sessions, stats>>
           ELSE IF ~Truthy(args.xPayment) /\ ~Truthy(args.token)
           THEN /\ reply' = GatewayReply(name, "InvalidParams")
                /\ UNCHANGED <<sessions, stats>>
           ELSE IF Truthy(args.token)
           THEN /\ reply' = GatewayReply(name, "AuthorizationFailed")
                /\ UNCHANGED <<sessions, stats>>
           ELSE /\ stats.totalPayments < MaxPayments
                /\ sessions' = recorded.sessions
                /\ stats' = recorded.stats
                /\ reply' = GatewayReply(name, "Authorized")
        /\ UNCHANGED <<mediatorVars, atomicVars, frontEnd, connections, registry, calls>>

\* CallTool of paywall-guard.ts on a gateway:paywall: name.
PaywallTool ==
  \E name \in PaywallToolNames, args \in AuthorizeArgs :
    handlePaywallTool(name, args)

\* A tool name as the text between its colons.
Segments(name) ==
  CASE name = "gateway:paywall:get-pricing" -> <<"gateway", "paywall", "get-pricing">>
    [] name = "gateway:paywall:authorize" -> <<"gateway", "paywall", "authorize">>
    [] name = "gateway:paywall:bogus" -> <<"gateway", "paywall", "bogus">>
    [] name = "gateway:paywall" -> <<"gateway", "paywall">>
    [] name = "s2:t1" -> <<"s2", "t1">>
    [] OTHER -> <<name>>

\* name.startsWith('gateway:paywall:')
StartsWithPaywallPrefix(name) ==
  /\ Len(Segments(name)) >= 3
  /\ SubSeq(Segments(name), 1, 2) = <<"gateway", "paywall">>

\* A CallTool handler that asks the registry before it looks at the prefix.
CallToolRegistryFirst(name, args) ==
  IF find("tool", name) = NoItem /\ StartsWithPaywallPrefix(name)
  THEN handlePaywallTool(name, args)
  ELSE LedgerHandle("tool", name)

\* The CallTool handler of paywall-guard.ts: a name with the paywall
\* prefix is served by the gateway itself, any other goes through the
\* registry, the connection and the ledger.
CallTool(name, args) ==
  IF StartsWithPaywallPrefix(name)
  THEN handlePaywallTool(name, args)
  ELSE LedgerHandle("tool", name)

\* The clock passes a session's expiresAt.
SessionExpires ==
  \E id \in DOMAIN sessions :
    /\ ~sessions[id].expired
    /\ sessions' = [sessions EXCEPT ![id].expired = TRUE]
    /\ UNCHANGED <<mediatorVars, atomicVars, frontEnd, connections, registry, stats,
                   calls, reply>>

\* PaywallGuard's five-minute timer.
CleanupTimer ==
  /\ frontEnd = "ledger"
  /\ sessions' = cleanupExpiredSessions(sessions, stats).sessions
  /\ stats' = cleanupExpiredSessions(sessions, stats).stats
  /\ UNCHANGED <<mediatorVars, atomicVars, frontEnd, connections, registry, calls, reply>>

NextGateway ==
  \/ CoreCallTool
  \/ CoreReadResource
  \/ CoreGetPrompt
  \/ LedgerCallTool
  \/ LedgerReadResource
  \/ LedgerGetPrompt
  \/ LedgerAfterCheck
  \/ LedgerInvoke
  \/ UpstreamAnswers
  \/ PaywallTool
  \/ SessionExpires
  \/ CleanupTimer

SpecGateway == InitGateway /\ [][NextGateway]_vars

----------------------------------------------------------------------------
(* PaywallGuard on its own: the methods of the session ledger called as    *)
(* its callers and its tests call them                                     *)

LedgerSessionIds == {"a", "b"}
\* receipt.amount of a verified payment
ReceiptAmounts == {50000, 100000}
\* recordAuthorization's amount: what the payment is used for at once
UsedAmounts == {0, 30000}
\* the amounts and prices asked of deductFromSession and isSessionAuthorized
AskedAmounts == {0, 30000, 50000, 150000}

LedgerCall(op, args, value) ==
  [op |-> op, args |-> args, before |-> sessions, value |-> value]

\* What the callers have seen a session spend since it was created.
SpentBy(sessionId) ==
  IF sessionId \in DOMAIN sessions /\ sessionId \in DOMAIN audit.spent
  THEN audit.spent[sessionId] ELSE 0

InitLedger ==
  /\ config = [payment |-> NoPayment, servers |-> <<Server1(NoPricing, NoPricing), Server2>>]
  /\ MediatorIdle
  /\ AtomicIdle
  /\ frontEnd = "ledger"
  /\ connections = [id \in {"s1", "s2"} |-> Live]
  /\ registry = RegistrySnapshot
  /\ sessions = NoSessions
  /\ stats = NoStats
  /\ calls = [c \in 1..MaxCalls |-> FreeSlot]
  /\ reply = NoReply

RecordAuthorization ==
  /\ stats.totalPayments < MaxPayments
  /\ \E sessionId \in LedgerSessionIds, receiptAmount \in ReceiptAmounts,
        amount \in UsedAmounts :
       LET r == recordAuthorization(sessions, stats, sessionId, receiptAmount, amount)
       IN  /\ sessions' = r.sessions
           /\ stats' = r.stats
           /\ ledgerCall' = LedgerCall("recordAuthorization",
                                       <<sessionId, receiptAmount, amount>>, <<>>)
           /\ audit' = [spent |-> MapSet(audit.spent, sessionId,
                                         SpentBy(sessionId)
                                           + IF amount > 0 THEN amount ELSE 0),
                        count |-> audit.count + 1,
                        sum |-> audit.sum + receiptAmount]
  /\ UNCHANGED <<mediatorVars, outbound, run, httpLedger, amountIn, amountOut, markupIn, markupOut,
                 frontEnd, connections, registry, calls, reply>>

DeductFromSession ==
  /\ \E sessionId \in LedgerSessionIds, amount \in AskedAmounts :
       LET d == deductFromSession(sessions, sessionId, amount)
       IN  /\ sessions' = d.sessions
           /\ ledgerCall' = LedgerCall("deductFromSession",
                                       <<sessionId, amount>>, d.value)
           /\ audit' = IF d.value /\ amount > 0
                       THEN [audit EXCEPT !.spent =
                               MapSet(@, sessionId, SpentBy(sessionId) + amount)]
                       ELSE audit
  /\ UNCHANGED <<mediatorVars, outbound, run, httpLedger, amountIn, amountOut, markupIn, markupOut,
                 frontEnd, connections, registry, stats, calls, reply>>

IsSessionAuthorized ==
  /\ \E sessionId \in LedgerSessionIds, price \in AskedAmounts :
       LET a == isSessionAuthorized(sessions, stats, sessionId, price)
       IN  /\ sessions' = a.sessions
           /\ stats' = a.stats
           /\ ledgerCall' = LedgerCall("isSessionAuthorized",
                                       <<sessionId, price>>, a.value)
  /\ UNCHANGED <<mediatorVars, outbound, run, httpLedger, amountIn, amountOut, markupIn, markupOut, audit,
                 frontEnd, connections, registry, calls, reply>>

\* The cleanup timer fires.
CleanupExpiredSessions ==
  /\ sessions' = cleanupExpiredSessions(sessions, stats).sessions
  /\ stats' = cleanupExpiredSessions(sessions, stats).stats
  /\ ledgerCall' = LedgerCall("cleanupExpiredSessions", <<>>, <<>>)
  /\ UNCHANGED <<mediatorVars, outbound, run, httpLedger, amountIn, amountOut, markupIn, markupOut, audit,
                 frontEnd, connections, registry, calls, reply>>

\* The clock passes a session's expiresAt, between two calls.
ClockPasses ==
  /\ \E id \in DOMAIN sessions :
       /\ ~sessions[id].expired
       /\ sessions' = [sessions EXCEPT ![id].expired = TRUE]
  /\ ledgerCall' = NoLedgerCall
  /\ UNCHANGED <<mediatorVars, outbound, run, httpLedger, amountIn, amountOut, markupIn, markupOut, audit,
                 frontEnd, connections, registry, stats, calls, reply>>

NextLedger ==
  \/ RecordAuthorization
  \/ DeductFromSession
  \/ IsSessionAuthorized
  \/ CleanupExpiredSessions
  \/ ClockPasses

SpecLedger == InitLedger /\ [][NextLedger]_vars

----------------------------------------------------------------------------
(* PaywallGuard.getRequiredPriceMicroUSDC on its own *)

\* Price strings of a pricing table: none, zero, two prices, two strings
\* that BigInt rejects.
PriceStrings ==
  {Undefined, <<"0">>, STR_50000, STR_150000, <<"a", "b", "c">>,
   <<"1", ".", "5">>}

PricedIds == {"t1", "r1", "p1"}
Kinds == {"tool", "resource", "prompt"}

\* A pricing table naming the id x, or no table.
Tables ==
  {NoTable} \cup {[id \in {x} |-> price] : x \in PricedIds,
                                          price \in PriceStrings \ {Undefined}}

PaywallSettings ==
  {NoPaywall}
    \cup [defined : {TRUE}, enabled : BOOLEAN, network : {"base-sepolia"},
          perTool : Tables, perResource : {NoTable, [id \in {"r1"} |-> STR_50000]},
          perPrompt : {NoTable, [id \in {"p1"} |-> <<"0">>]},
          defaultPriceMicroUSDC : PriceStrings]

PricedServer(paywall) ==
  [name |-> "s1", tools |-> <<>>, defaultPricing |-> NoPricing,
   paymentMode |-> "", paywall |-> paywall]

InitPricing ==
  /\ config = [payment |-> NoPayment, servers |-> <<Server1(NoPricing, NoPricing), Server2>>]
  /\ MediatorIdle
  /\ amountIn = <<>> /\ amountOut = <<>>
  /\ markupIn = NoMarkup /\ markupOut = <<>>
  /\ ledgerCall \in [op : {"getRequiredPriceMicroUSDC"},
                      args : Kinds \X PricedIds \X PaywallSettings,
                      before : {<<>>}, value : {<<>>}]
  /\ audit = NoAudit
  /\ outbound = NoOutbound /\ run = NoRun /\ httpLedger = NoHttpLedger
  /\ GatewayIdle

GetRequiredPrice ==
  /\ ledgerCall.op = "getRequiredPriceMicroUSDC"
  /\ ledgerCall.value = <<>>
  /\ ledgerCall' =
       [ledgerCall EXCEPT !.value =
          <<getRequiredPriceMicroUSDC(ledgerCall.args[1], ledgerCall.args[2],
                                      PricedServer(ledgerCall.args[3]))>>]
  /\ UNCHANGED <<mediatorVars, outbound, run, httpLedger, amountIn, amountOut, markupIn, markupOut, audit,
                 gatewayVars>>

NextPricing == GetRequiredPrice

SpecPricing == InitPricing /\ [][NextPricing]_vars

----------------------------------------------------------------------------
(* The x402 fetch of an upstream session: a 402 from the upstream is       *)
(* answered by signing a payment and sending the request again             *)

\* default 0.10 USDC in micro USDC
DEFAULT_MAX == 100000

\* McpServerConfig.x402Middleware: absent, a boolean, or an object.
NoMiddleware ==
  [defined |-> FALSE, boolean |-> FALSE, enabled |-> FALSE,
   maxValueMicroUSDC |-> Undefined]
BooleanMiddleware(value) ==
  [defined |-> TRUE, boolean |-> TRUE, enabled |-> value,
   maxValueMicroUSDC |-> Undefined]
ObjectMiddleware(maxValueMicroUSDC) ==
  [defined |-> TRUE, boolean |-> FALSE, enabled |-> TRUE,
   maxValueMicroUSDC |-> maxValueMicroUSDC]

isX402Enabled(serverConfig) ==
  IF ~serverConfig.x402Middleware.defined THEN FALSE
  ELSE serverConfig.x402Middleware.enabled

\* getMaxValueMicroUSDC that ignores the configured value.
getMaxValueMicroUSDCAlwaysDefault(serverConfig) == DEFAULT_MAX

getMaxValueMicroUSDC(serverConfig) ==
  IF ~serverConfig.x402Middleware.defined \/ serverConfig.x402Middleware.boolean
  THEN DEFAULT_MAX
  ELSE LET raw == serverConfig.x402Middleware.maxValueMicroUSDC
       IN  IF ~Truthy(raw) THEN DEFAULT_MAX
           ELSE IF BigIntParses(raw) THEN BigInt(raw)
           ELSE DEFAULT_MAX

STR_120000 == <<"1", "2", "0", "0", "0", "0">>

Middlewares ==
  {BooleanMiddleware(TRUE)}
    \cup {ObjectMiddleware(m) :
            m \in {Undefined, <<"0">>, STR_50000, STR_120000, STR_150000,
                   <<"a", "b", "c">>}}

\* maxAmountRequired of the upstream's 402
RequiredAmounts == {10000, 50000, 100000, 100001, 120000, 150000, 200000}

OutboundServer(middleware) ==
  [name |-> "s1", tools |-> <<>>, defaultPricing |-> NoPricing,
   paymentMode |-> "markup", paywall |-> NoPaywall,
   x402Middleware |-> middleware]

\* createX402Fetch: the fetch of the session wraps fetch with the wallet
\* and the cap.
InitOutbound ==
  /\ \E middleware \in Middlewares :
       /\ config = [payment |-> NoPayment,
                    servers |-> <<OutboundServer(middleware)>>]
       /\ outbound = [NoOutbound EXCEPT
                        !.maxValue = getMaxValueMicroUSDC(OutboundServer(middleware))]
  /\ isX402Enabled(config.servers[1])
  /\ MediatorIdle
  /\ amountIn = <<>> /\ amountOut = <<>>
  /\ markupIn = NoMarkup /\ markupOut = <<>>
  /\ ledgerCall = NoLedgerCall /\ audit = NoAudit
  /\ run = NoRun /\ httpLedger = NoHttpLedger
  /\ GatewayIdle

OutboundUnchanged ==
  UNCHANGED <<mediatorVars, amountIn, amountOut, markupIn, markupOut,
              ledgerCall, audit, run, httpLedger, gatewayVars>>

\* Idle -> SentOnce: the request goes to the upstream.
SendOnce ==
  /\ outbound.pc = "Idle"
  /\ outbound' = [outbound EXCEPT !.pc = "SentOnce", !.sends = 1]
  /\ OutboundUnchanged

\* SentOnce -> done: the upstream answers with anything but 402.
FirstAnswerPlain ==
  /\ outbound.pc = "SentOnce"
  /\ outbound' = [outbound EXCEPT
                    !.pc = "Done",
                    !.outcome = [kind |-> "response", transient |-> FALSE,
                                 message |-> ""]]
  /\ OutboundUnchanged

\* SentOnce -> Signed | fail: the upstream answers 402; the cap is checked
\* and, within the cap, the payment is signed.
FirstAnswer402 ==
  /\ outbound.pc = "SentOnce"
  /\ \E required \in RequiredAmounts :
       outbound' =
         IF required > outbound.maxValue
         THEN [outbound EXCEPT
                 !.pc = "Done",
                 !.required = <<required>>,
                 !.outcome = [kind |-> "UpstreamError", transient |-> FALSE,
                              message |-> "downstream payment exceeds cap"]]
         ELSE [outbound EXCEPT
                 !.pc = "Signed",
                 !.required = <<required>>,
                 !.signed = Append(@, required)]
  /\ OutboundUnchanged

\* Signed -> SentTwice: the request goes again, with the payment.
SendTwice ==
  /\ outbound.pc = "Signed"
  /\ outbound' = [outbound EXCEPT !.pc = "SentTwice", !.sends = @ + 1]
  /\ OutboundUnchanged

\* SentTwice -> 2xx | fail: the second answer is final, a 402 included.
SecondAnswer ==
  /\ outbound.pc = "SentTwice"
  /\ \E ok \in BOOLEAN :
       outbound' =
         [outbound EXCEPT
            !.pc = "Done",
            !.outcome = IF ok
                        THEN [kind |-> "response", transient |-> FALSE,
                              message |-> ""]
                        ELSE [kind |-> "UpstreamError", transient |-> FALSE,
                              message |-> "downstream refused payment"]]
  /\ OutboundUnchanged

NextOutbound ==
  \/ SendOnce
  \/ FirstAnswerPlain
  \/ FirstAnswer402
  \/ SendTwice
  \/ SecondAnswer

SpecOutbound == InitOutbound /\ [][NextOutbound]_vars

----------------------------------------------------------------------------
(* The front-ends over connections that fail and recover: the health check *)
(* of core/gateway.ts and paywall-guard.ts, and the registry it rebuilds.  *)

\* GatewayRegistry.refresh(connectedServers): the snapshot holds what the
\* connected upstreams list; an upstream that cannot be asked lists nothing.
refresh(conns) ==
  {e \in RegistrySnapshot :
     /\ e.serverId \in DOMAIN conns
     /\ conns[e.serverId].status = "connected"
     /\ conns[e.serverId].alive}

\* A health check that parks an upstream without saying why.
performHealthChecksNoLastError(conns, reconnects) ==
  [id \in DOMAIN conns |->
     IF conns[id].status = "connected"
     THEN IF conns[id].alive THEN conns[id]
          ELSE [conns[id] EXCEPT !.status = "error"]
     ELSE IF reconnects[id] THEN Live ELSE conns[id]]

\* ServerManager.performHealthChecks(): a connected upstream is probed and
\* parked in 'error' when the probe fails; for any other a reconnect is
\* tried once, and reconnects[id] says whether it succeeds.
performHealthChecks(conns, reconnects) ==
  [id \in DOMAIN conns |->
     IF conns[id].status = "connected"
     THEN IF conns[id].alive THEN conns[id]
          ELSE [conns[id] EXCEPT !.status = "error",
                                 !.lastError = "health check failed"]
     ELSE IF reconnects[id] THEN Live ELSE conns[id]]

\* The upstreams that fail and recover; the others stay connected.
FailingUpstreams == {"s1"}

InitRouting ==
  /\ config = [payment |-> PaymentPolicy(TRUE, "base-sepolia"),
               servers |-> <<GatewayServer1(Undefined), GatewayServer2>>]
  /\ pc = "idle" /\ req = NoReq /\ pricing = NoPricing /\ result = NoResult
  /\ fetches = <<>> /\ facResp = NoResp /\ challenge = <<>>
  /\ forwarded = NotForwarded
  /\ AtomicIdle
  /\ frontEnd \in {"core", "ledger"}
  /\ connections \in [{"s1", "s2"} -> {Live, Parked}]
  /\ \A id \in DOMAIN connections \ FailingUpstreams : connections[id] = Live
  /\ registry = refresh(connections)
  /\ sessions = NoSessions
  /\ stats = NoStats
  /\ calls = [c \in 1..MaxCalls |-> FreeSlot]
  /\ reply = NoReply

\* The client of a connected upstream stops reaching it: the process died
\* or the transport broke.  The connection's status is not touched.
SessionFails ==
  \E id \in FailingUpstreams \cap DOMAIN connections :
    /\ connections[id].alive
    /\ connections' = [connections EXCEPT ![id].alive = FALSE]
    /\ UNCHANGED <<mediatorVars, atomicVars, frontEnd, registry, sessions,
                   stats, calls, reply>>

\* performHealthCheck up to its second await: the connection manager's pass.
PerformHealthCheck ==
  \E reconnects \in [DOMAIN connections -> BOOLEAN] :
    /\ connections' = performHealthChecks(connections, reconnects)
    /\ UNCHANGED <<mediatorVars, atomicVars, frontEnd, registry, sessions,
                   stats, calls, reply>>

\* The registry rebuilt from the connected servers: the rest of
\* performHealthCheck, and refreshRegistry().
RefreshRegistry ==
  /\ registry' = refresh(connections)
  /\ UNCHANGED <<mediatorVars, atomicVars, frontEnd, connections, sessions,
                 stats, calls, reply>>

NextRouting ==
  \/ CoreCallTool
  \/ CoreReadResource
  \/ CoreGetPrompt
  \/ LedgerCallTool
  \/ LedgerReadResource
  \/ LedgerGetPrompt
  \/ LedgerAfterCheck
  \/ LedgerInvoke
  \/ UpstreamAnswers
  \/ PaywallTool
  \/ SessionFails
  \/ PerformHealthCheck
  \/ RefreshRegistry

SpecRouting == InitRouting /\ [][NextRouting]_vars

----------------------------------------------------------------------------
(* The gateway's life: start() with its connect tasks, the health-check    *)
(* timer, the registry rebuilt list by list and published at once, stop(). *)

\* McpServerConfigSchema.parse: retryAttempts and retryDelay with their
\* defaults.
McpServerConfig(raw) ==
  [name |-> raw.name,
   enabled |-> IF "enabled" \in DOMAIN raw THEN raw.enabled ELSE TRUE,
   retryAttempts |-> IF "retryAttempts" \in DOMAIN raw THEN raw.retryAttempts
                     ELSE 3,
   retryDelay |-> IF "retryDelay" \in DOMAIN raw THEN raw.retryDelay
                  ELSE 1000]

ServerOf(id) ==
  config.servers[CHOOSE i \in 1..Len(config.servers) :
                   config.servers[i].name = id]

\* A session whose first connect is under way.
Connecting == [status |-> "connecting", alive |-> FALSE, failedCall |-> FALSE,
               client |-> "null", lastError |-> ""]
\* A connect task that has made no attempt yet: the attempts made, the
\* pauses taken between them, how the last attempt ended, whether the task
\* is over.
NoTask == [attempts |-> 0, pauses |-> <<>>, last |-> "", done |-> FALSE]

\* How one attempt to connect ends.
ConnectOutcomes == {"ok", "transient", "fatal"}

\* A connect task that tries again after any failure.
connectAttemptRetriesFatal(server, session, task, outcome) ==
  LET made == task.attempts + 1
      pauses == IF task.attempts = 0 THEN task.pauses
                ELSE Append(task.pauses, server.retryDelay)
  IN  IF outcome = "ok"
      THEN [session |-> Live,
            task |-> [attempts |-> made, pauses |-> pauses, last |-> outcome,
                      done |-> TRUE]]
      ELSE IF made < server.retryAttempts
      THEN [session |-> session,
            task |-> [attempts |-> made, pauses |-> pauses, last |-> outcome,
                      done |-> FALSE]]
      ELSE [session |-> [Parked EXCEPT !.lastError = outcome],
            task |-> [attempts |-> made, pauses |-> pauses, last |-> outcome,
                      done |-> TRUE]]

\* One attempt of a connect task, after the pause of retryDelay when it is
\* not the first: success makes the session connected; a transient failure
\* is retried while fewer than retryAttempts attempts have been made; any
\* other failure, or the last transient one, parks the session in 'error'
\* with the failure as lastError.
connectAttempt(server, session, task, outcome) ==
  LET made == task.attempts + 1
      pauses == IF task.attempts = 0 THEN task.pauses
                ELSE Append(task.pauses, server.retryDelay)
  IN  IF outcome = "ok"
      THEN [session |-> Live,
            task |-> [attempts |-> made, pauses |-> pauses, last |-> outcome,
                      done |-> TRUE]]
      ELSE IF outcome = "transient" /\ made < server.retryAttempts
      THEN [session |-> session,
            task |-> [attempts |-> made, pauses |-> pauses, last |-> outcome,
                      done |-> FALSE]]
      ELSE [session |-> [Parked EXCEPT !.lastError = outcome],
            task |-> [attempts |-> made, pauses |-> pauses, last |-> outcome,
                      done |-> TRUE]]

\* An initializeServers that rejects when a connect task has failed.
initializeServersRejects(tasks) ==
  IF \E id \in DOMAIN tasks : tasks[id].last # "ok" THEN "rejected"
  ELSE "resolved"

\* ServerManager.initializeServers(servers) once every connect task is
\* over: failures are logged and the promise resolves.
initializeServers(tasks) == "resolved"

\* ServerManager.getConnectedServers(): the sessions whose status is
\* 'connected'.
getConnectedServers(conns) ==
  {id \in DOMAIN conns : conns[id].status = "connected"}

\* GatewayRegistry.refresh(connectedServers) as it begins: nothing
\* collected yet, the tools to be listed first.
BeginBuild(connected) ==
  [connected |-> connected, stage |-> "tool", entries |-> {}]

AfterStage(stage) ==
  IF stage = "tool" THEN "resource"
  ELSE IF stage = "resource" THEN "prompt"
  ELSE "ready"

\* One list of the rebuild: the sessions it was given are asked for their
\* items of one kind, and what they answer is added to the new maps.
rebuildPass(built, conns) ==
  [built EXCEPT
     !.entries = @ \cup {e \in refresh(conns) :
                           e.kind = built.stage /\ e.serverId \in built.connected},
     !.stage = AfterStage(built.stage)]

\* A rebuild that writes each map into the registry as soon as it is built.
publishInPlace(reg, built) ==
  IF built.stage = "ready" THEN built.entries
  ELSE {e \in reg :
          e.kind = built.stage
            \/ (built.stage = "resource" /\ e.kind = "prompt")}
         \cup built.entries

\* The registry after a list of the rebuild: the new maps replace the old
\* ones together, once the last list is in.
publish(reg, built) ==
  IF built.stage = "ready" THEN built.entries ELSE reg

\* A health check that takes the connected servers before the manager's
\* pass.
performHealthCheckStale(conns, reconnects) ==
  LET after == performHealthChecks(conns, reconnects)
  IN  [connections |-> after,
       connected |-> getConnectedServers(conns),
       reconnected |-> {id \in DOMAIN conns :
                          /\ conns[id].status # "connected"
                          /\ after[id].status = "connected"}]

\* performHealthCheck() of core/gateway.ts: the manager's pass, then the
\* connected servers are taken for the rebuild.  reconnected names the
\* sessions the pass brought back.
performHealthCheck(conns, reconnects) ==
  LET after == performHealthChecks(conns, reconnects)
  IN  [connections |-> after,
       connected |-> getConnectedServers(after),
       reconnected |-> {id \in DOMAIN conns :
                          /\ conns[id].status # "connected"
                          /\ after[id].status = "connected"}]

\* A closeAll that keeps the sessions whose close failed.
closeAllKeepsFailed(conns, closeFails) ==
  [id \in {i \in DOMAIN conns : closeFails[i]} |-> conns[id]]

\* ServerManager.closeAll(): every session is closed, a failing close is
\* logged, and the session map is emptied.
closeAll(conns, closeFails) ==
  [id \in {} |-> conns[id]]

\* The first upstream is configured with the default retry settings, the
\* second with two attempts half a second apart.
InitLifecycle ==
  /\ config = [payment |-> PaymentPolicy(FALSE, "base-sepolia"),
               servers |-> <<McpServerConfig([name |-> "s1"]),
                             McpServerConfig([name |-> "s2",
                                              retryAttempts |-> 2,
                                              retryDelay |-> 500])>>]
  /\ pc = "idle" /\ req = NoReq /\ pricing = NoPricing /\ result = NoResult
  /\ fetches = <<>> /\ facResp = NoResp /\ challenge = <<>>
  /\ forwarded = NotForwarded
  /\ AtomicIdle
  /\ frontEnd = "core"
  /\ connections = <<>>
  /\ registry = {}
  /\ sessions = NoSessions
  /\ stats = NoStats
  /\ calls = [c \in 1..MaxCalls |-> FreeSlot]
  /\ reply = NoReply

LifecycleUnchanged ==
  UNCHANGED <<mediatorVars, amountIn, amountOut, markupIn, markupOut,
              ledgerCall, audit, outbound, httpLedger, frontEnd, sessions, stats,
              calls,
              reply>>

\* start() up to its first await: initializeServers makes a session for
\* every enabled server and starts its connect task.
Start ==
  /\ run.pc = "constructed"
  /\ LET ids == {config.servers[i].name :
                   i \in {j \in 1..Len(config.servers) :
                            config.servers[j].enabled}}
     IN  /\ connections' = [id \in ids |-> Connecting]
         /\ run' = [run EXCEPT !.pc = "initializing",
                               !.tasks = [id \in ids |-> NoTask]]
  /\ UNCHANGED registry
  /\ LifecycleUnchanged

\* A connect task makes its next attempt.
ConnectAttempt ==
  /\ run.pc = "initializing"
  /\ \E id \in DOMAIN run.tasks :
       /\ ~run.tasks[id].done
       /\ \E outcome \in ConnectOutcomes :
            LET r == connectAttempt(ServerOf(id), connections[id],
                                    run.tasks[id], outcome)
            IN  /\ connections' = [connections EXCEPT ![id] = r.session]
                /\ run' = [run EXCEPT !.tasks[id] = r.task]
  /\ UNCHANGED registry
  /\ LifecycleUnchanged

\* start() after initializeServers, whose connect tasks are over and
\* gone: a rejection is logged and thrown on; otherwise the registry is
\* rebuilt from the connected servers.
InitializeReturns ==
  /\ run.pc = "initializing"
  /\ \A id \in DOMAIN run.tasks : run.tasks[id].done
  /\ run' = IF initializeServers(run.tasks) = "resolved"
            THEN [run EXCEPT
                    !.pc = "registering",
                    !.tasks = <<>>,
                    !.built = BeginBuild(getConnectedServers(connections))]
            ELSE [run EXCEPT !.pc = "failed", !.tasks = <<>>,
                             !.started = "failed"]
  /\ UNCHANGED <<connections, registry>>
  /\ LifecycleUnchanged

\* The rebuild start() waits for gets the answers to one of its lists;
\* with the last one the new maps are published, and start() sets the
\* health-check timer and returns.
RebuildPass ==
  /\ run.built.stage # "idle"
  /\ LET after == rebuildPass(run.built, connections)
         last == after.stage = "ready"
     IN  /\ registry' = publish(registry, after)
         /\ run' = [run EXCEPT
                      !.built = IF last THEN NoBuild ELSE after,
                      !.pc = IF last THEN "running" ELSE @,
                      !.started = IF last THEN "ok" ELSE @]
  /\ UNCHANGED connections
  /\ LifecycleUnchanged

\* The sequence without its i-th element.
Without(seq, i) == SubSeq(seq, 1, i - 1) \o SubSeq(seq, i + 1, Len(seq))

\* The health-check timer fires, whether or not an earlier pass is still
\* under way: the manager's pass, and a rebuild begins.
HealthCheck ==
  /\ run.pc = "running"
  /\ Len(run.passes) < MaxPasses
  /\ \E reconnects \in [DOMAIN connections -> BOOLEAN] :
       LET r == performHealthCheck(connections, reconnects)
       IN  /\ connections' = r.connections
           /\ run' = [run EXCEPT
                        !.passes = Append(@, [built |-> BeginBuild(r.connected),
                                              reconnected |-> r.reconnected])]
  /\ UNCHANGED registry
  /\ LifecycleUnchanged

\* The rebuild of a health-check pass gets the answers to one of its
\* lists; with the last one the new maps are published and the pass is
\* over.  Nothing in it looks at whether the gateway has been stopped.
HealthCheckRebuilds ==
  /\ \E i \in 1..Len(run.passes) :
       LET after == rebuildPass(run.passes[i].built, connections)
       IN  /\ registry' = publish(registry, after)
           /\ run' = [run EXCEPT
                        !.passes = IF after.stage = "ready" THEN Without(@, i)
                                   ELSE [@ EXCEPT ![i].built = after],
                        !.reconnected =
                          IF after.stage = "ready" /\ run.pc = "running"
                          THEN @ \cup run.passes[i].reconnected
                          ELSE @]
  /\ UNCHANGED connections
  /\ LifecycleUnchanged

\* The client of a connected upstream stops reaching it, as in
\* SessionFails; the upstream is no longer one that has been up since a
\* pass reconnected it.
UpstreamLost ==
  /\ \E id \in FailingUpstreams \cap DOMAIN connections :
       /\ connections[id].alive
       /\ connections' = [connections EXCEPT ![id].alive = FALSE]
       /\ run' = [run EXCEPT
                    !.reconnected = @ \ {id},
                    !.passes = [i \in 1..Len(@) |->
                                  [@[i] EXCEPT !.reconnected = @ \ {id}]]]
  /\ UNCHANGED registry
  /\ LifecycleUnchanged

\* stop(): the timer is cleared, closeAll() is awaited and the server is
\* closed.  A health-check pass under way is not waited for.
Stop ==
  /\ run.pc = "running"
  /\ \E closeFails \in [DOMAIN connections -> BOOLEAN] :
       connections' = closeAll(connections, closeFails)
  /\ run' = [run EXCEPT !.pc = "stopped", !.reconnected = {}]
  /\ UNCHANGED registry
  /\ LifecycleUnchanged

\* CallTool on the tool of the first upstream.
CallFirstTool == CoreHandle("tool", "t1")

NextLifecycle ==
  \/ Start
  \/ ConnectAttempt
  \/ InitializeReturns
  \/ RebuildPass
  \/ HealthCheck
  \/ HealthCheckRebuilds
  \/ UpstreamLost
  \/ CallFirstTool
  \/ UpstreamAnswers
  \/ Stop

SpecLifecycle == InitLifecycle /\ [][NextLifecycle]_vars

----------------------------------------------------------------------------
(* GatewayRegistry.refresh on its own: the names under which the items   *)
(* the upstreams list are exposed                                        *)

STR_t == <<"t">>
STR_t_s2 == <<"t", "@", "s", "2">>
STR_t_s2_2 == <<"t", "@", "s", "2", "#", "2">>
STR_p == <<"p">>
STR_file_a == <<"f", "i", "l", "e", ":", "/", "/", "a">>
STR_file_n_a == <<"f", "i", "l", "e", ":", "/", "/", "n", "/", "a">>
STR_n == <<"n">>

IdString(upstreamId) ==
  CASE upstreamId = "s1" -> <<"s", "1">>
    [] upstreamId = "s2" -> <<"s", "2">>

RECURSIVE Ordinal(_)
Ordinal(n) ==
  IF n < 10 THEN <<DigitChar(n)>>
  ELSE Ordinal(n \div 10) \o <<DigitChar(n % 10)>>

\* The place of "://" in a URI, 0 when the URI has no scheme.
SchemeEnd(uri) ==
  LET at == {i \in 1..Len(uri) - 2 : SubSeq(uri, i, i + 2) = <<":", "/", "/">>}
  IN  IF at = {} THEN 0 ELSE CHOOSE i \in at : \A j \in at : i <= j

\* Pass 2: the exposed name of an item.
exposedName(kind, namespace, original) ==
  IF namespace = Undefined THEN original
  ELSE IF kind = "resource" /\ SchemeEnd(original) > 0
  THEN SubSeq(original, 1, SchemeEnd(original) + 2) \o namespace \o <<"/">>
         \o SubSeq(original, SchemeEnd(original) + 3, Len(original))
  ELSE namespace \o <<":">> \o original

\* The suffix with the ordinal written from the first try on.
SuffixedOrdinalFromOne(name, upstreamId, n) ==
  name \o <<"@">> \o IdString(upstreamId) \o <<"#">> \o Ordinal(n)

Suffixed(name, upstreamId, n) ==
  name \o <<"@">> \o IdString(upstreamId)
    \o IF n = 1 THEN <<>> ELSE <<"#">> \o Ordinal(n)

\* Conflict resolution that appends @upstreamId and does not try again.
resolveConflictOnce(taken, name, upstreamId, n) == Suffixed(name, upstreamId, n)

\* Pass 3, conflict resolution enabled: @upstreamId, then @upstreamId#2,
\* #3, ... until the name is not taken.
RECURSIVE resolveConflict(_, _, _, _)
resolveConflict(taken, name, upstreamId, n) ==
  IF Suffixed(name, upstreamId, n) \notin taken
  THEN Suffixed(name, upstreamId, n)
  ELSE resolveConflict(taken, name, upstreamId, n + 1)

\* Pass 3 in which, conflict resolution disabled, the later item takes the
\* place of the earlier one.
RECURSIVE scanKeepsLater(_, _, _)
scanKeepsLater(items, published, enabled) ==
  IF items = <<>> THEN published
  ELSE
    LET item == Head(items)
        taken == {published[i].name : i \in DOMAIN published}
    IN  IF item.name \notin taken
        THEN scanKeepsLater(Tail(items), Append(published, item), enabled)
        ELSE IF enabled
        THEN scanKeepsLater(Tail(items),
                  Append(published,
                         [item EXCEPT !.name =
                            resolveConflict(taken, item.name, item.serverId, 1)]),
                  enabled)
        ELSE scanKeepsLater(Tail(items),
                  [i \in DOMAIN published |->
                     IF published[i].name = item.name THEN item ELSE published[i]],
                  enabled)

\* Pass 3: the items in the order of the sessions list; a duplicate is
\* renamed, or dropped when conflict resolution is disabled.
RECURSIVE scan(_, _, _)
scan(items, published, enabled) ==
  IF items = <<>> THEN published
  ELSE
    LET item == Head(items)
        taken == {published[i].name : i \in DOMAIN published}
    IN  IF item.name \notin taken
        THEN scan(Tail(items), Append(published, item), enabled)
        ELSE IF enabled
        THEN scan(Tail(items),
                  Append(published,
                         [item EXCEPT !.name =
                            resolveConflict(taken, item.name, item.serverId, 1)]),
                  enabled)
        ELSE scan(Tail(items), published, enabled)

\* Pass 1 and 2: what the connected sessions list for a kind, named.
RECURSIVE listed(_, _, _)
listed(kind, servers, conns) ==
  IF servers = <<>> THEN <<>>
  ELSE
    LET server == Head(servers)
        conn == conns[server.name]
        originals == IF conn.status # "connected" THEN <<>>
                     ELSE CASE kind = "tool" -> conn.tools
                            [] kind = "resource" -> conn.resources
                            [] kind = "prompt" -> conn.prompts
    IN  [i \in DOMAIN originals |->
           [kind |-> kind,
            name |-> exposedName(kind, server.namespace, originals[i]),
            originalName |-> originals[i],
            serverId |-> server.name]]
          \o listed(kind, Tail(servers), conns)

\* GatewayRegistry.refresh: the three passes, then the three maps swapped.
refreshListed(cfg, conns) ==
  [tools |-> scan(listed("tool", cfg.servers, conns), <<>>,
                  cfg.settings.enableToolConflictResolution),
   resources |-> scan(listed("resource", cfg.servers, conns), <<>>,
                      cfg.settings.enableResourceConflictResolution),
   prompts |-> scan(listed("prompt", cfg.servers, conns), <<>>,
                    cfg.settings.enablePromptConflictResolution)]

EmptyRegistry == [tools |-> <<>>, resources |-> <<>>, prompts |-> <<>>]

SeqsUpTo(S, n) == UNION {[1..k -> S] : k \in 0..n}

ListedToolNames == {STR_t, STR_t_s2, STR_t_s2_2}
ResourceUris == {STR_file_a, STR_file_n_a}

\* A session and what its upstream answers to list*.
Listing(status, tools, resources, prompts) ==
  [status |-> status, alive |-> status = "connected", failedCall |-> FALSE,
   tools |-> tools, resources |-> resources, prompts |-> prompts]

NamedServer(name, namespace) ==
  [name |-> name, namespace |-> namespace, tools |-> <<>>,
   defaultPricing |-> NoPricing, paymentMode |-> "", paywall |-> NoPaywall]

InitRegistry ==
  /\ \E namespace \in {Undefined, STR_n},
        settings \in [enableToolConflictResolution : BOOLEAN,
                      enableResourceConflictResolution : BOOLEAN,
                      enablePromptConflictResolution : BOOLEAN] :
       config = [payment |-> NoPayment,
                 servers |-> <<NamedServer("s1", namespace),
                               NamedServer("s2", Undefined)>>,
                 settings |-> settings]
  /\ MediatorIdle
  /\ AtomicIdle
  /\ frontEnd = "core"
  /\ \E tools1 \in SeqsUpTo(ListedToolNames, MaxListed),
        tools2 \in SeqsUpTo(ListedToolNames, MaxListed),
        resources1 \in {<<>>, <<STR_file_a>>},
        resources2 \in {<<uri>> : uri \in ResourceUris},
        prompts2 \in {<<>>, <<STR_p>>},
        status2 \in {"connected", "error"} :
       connections =
         [id \in {"s1", "s2"} |->
            IF id = "s1"
            THEN Listing("connected", tools1, resources1, <<STR_p>>)
            ELSE Listing(status2, tools2, resources2, prompts2)]
  /\ registry = EmptyRegistry
  /\ sessions = NoSessions
  /\ stats = NoStats
  /\ calls = [c \in 1..MaxCalls |-> FreeSlot]
  /\ reply = NoReply

\* The registry is rebuilt and the new snapshot published.
PublishSnapshot ==
  /\ registry' = refreshListed(config, connections)
  /\ UNCHANGED <<mediatorVars, atomicVars, frontEnd, connections, sessions,
                 stats, calls, reply>>

NextRegistry == PublishSnapshot

SpecRegistry == InitRegistry /\ [][NextRegistry]_vars

----------------------------------------------------------------------------
(* What the specification says of an admission *)

\* The pricing the specification resolves for a call: the upstream's own
\* entry for the tool, else the upstream's default, else none.
PricingOfUpstream(cfg, toolName, serverId) ==
  LET own == {i \in 1..Len(cfg.servers) : cfg.servers[i].name = serverId}
  IN  IF own = {} THEN NoPricing
      ELSE LET upstream == cfg.servers[CHOOSE i \in own : TRUE]
               entries == {j \in 1..Len(upstream.tools) :
                             /\ upstream.tools[j].name = toolName
                             /\ upstream.tools[j].pricing.defined}
           IN  IF entries # {}
               THEN upstream.tools[CHOOSE j \in entries : TRUE].pricing
               ELSE upstream.defaultPricing

\* Every pricing an upstream's configuration holds.
PricingsOf(cfg, serverId) ==
  UNION {{cfg.servers[i].defaultPricing}
           \cup {cfg.servers[i].tools[j].pricing :
                   j \in 1..Len(cfg.servers[i].tools)} :
         i \in {k \in 1..Len(cfg.servers) : cfg.servers[k].name = serverId}}

ReqPricing == PricingOfUpstream(config, req.tool, req.server)

Admitting == pc # "idle"
Decided == pc \in {"done", "replied"}

\* The call is one the policy charges for.
PricedCall ==
  /\ Admitting
  /\ PaymentEnabled(config)
  /\ ReqPricing.defined
  /\ ~ReqPricing.free

\* The facilitator was asked and did not answer 200 {verified: true}.
FacilitatorVerified ==
  facResp.kind = "http" /\ ResponseOk(facResp) /\ facResp.body = "verified"
FacilitatorFailed == facResp.kind # "none" /\ ~FacilitatorVerified

\* The headers of the request whose name is, in any letter case, `name`.
Named(name) == {n \in DOMAIN req.hdr.h : Lower(n) = name}

\* The API keys the request carries, in X-ELIZA-API-KEY or as a Bearer token.
CarriedKeys ==
  {req.hdr.h[n] : n \in Named("x-eliza-api-key")}
    \cup {Tail(req.hdr.h[n]) :
            n \in {m \in Named("authorization") :
                     /\ req.hdr.h[m] # <<>>
                     /\ Head(req.hdr.h[m]) = "Bearer "}}

\* C2: a call is authorized as free, amount 0, method free, without any
\* call to the facilitator, whenever the payment policy is disabled, no
\* pricing resolves for the (tool, upstream) pair, or the pricing is marked
\* free; whatever the headers, absent headers included.
C2_FreeWithoutPayment ==
  (Admitting /\ (~PaymentEnabled(config) \/ ~ReqPricing.defined \/ ReqPricing.free))
    => /\ pc # "awaitFacilitator"
       /\ fetches = <<>>
       /\ result = Result(TRUE, Undefined, <<"0">>, "free")

\* A tool marked free is called under the enforcing policy with a payment
\* proof in X-PAYMENT, and is admitted as free.
C2_Witness ==
  /\ pc = "done"
  /\ PaymentEnabled(config)
  /\ ReqPricing.defined /\ ReqPricing.free
  /\ "x-payment" \in DOMAIN req.hdr.h
  /\ req.hdr.h["x-payment"] = <<"PAY1">>
  /\ result.authorized /\ result.method = "free"

\* C3: a priced call that carries a known API key, the pricing having an
\* entry for that key's tier, is admitted by API key, at amount 0 for a tier
\* price of "free", "$0" or "$0.00" and at the tier price otherwise, and the
\* facilitator is not called, an X-PAYMENT header notwithstanding.
C3_KnownKeyAdmitted ==
  \A key \in CarriedKeys :
    (/\ PricedCall
     /\ ApiKeyKnown(config, key)
     /\ ReqPricing.apiKeyTiers[ApiKeyTier(config, key)] # Undefined)
      => LET tierPrice == ReqPricing.apiKeyTiers[ApiKeyTier(config, key)]
         IN  /\ pc # "awaitFacilitator"
             /\ fetches = <<>>
             /\ result.authorized
             /\ result.method = "apiKey"
             /\ result.amount = IF tierPrice \in {STR_free, STR_0, STR_000}
                                THEN <<"0">> ELSE tierPrice

\* C4: a priced call with an X-PAYMENT header that the facilitator does not
\* verify gets a result that differs from the one the same call gets with
\* no payment header.
C4_RejectDistinctFromChallenge ==
  (Decided /\ PricedCall /\ Named("x-payment") # {} /\ FacilitatorFailed)
    => result # verifyPayment(config, req.tool, req.server, NoHeaders).result

\* C6: when the facilitator answers anything but 200 {verified: true}, or
\* does not answer, the call is not authorized and the result is the same
\* whatever the status code and the error text were.
C6_FacilitatorFailureOpaque ==
  (Decided /\ FacilitatorFailed)
    => /\ ~result.authorized
       /\ result = Result(FALSE, PaymentRequiredError(ReqPricing.x402),
                          ReqPricing.x402, "x402")

\* The facilitator answers 500 and the call is decided.
C6_Witness ==
  /\ pc = "done"
  /\ facResp.kind = "http" /\ facResp.status = 500
  /\ ~result.authorized

\* C7: the pricing of a call is the called upstream's entry for the tool,
\* else that upstream's default, else none; never an entry of another
\* upstream.
C7_PricingPerUpstream ==
  (Admitting /\ PaymentEnabled(config))
    => /\ pricing = PricingOfUpstream(config, req.tool, req.server)
       /\ pricing.defined => pricing \in PricingsOf(config, req.server)

\* t2 of s1 has no entry of its own and s1 has a default, which is used,
\* while s2 prices a tool differently.
C7_Witness ==
  /\ pc = "done"
  /\ req.tool = "t2" /\ req.server = "s1"
  /\ pricing.defined
  /\ pricing = config.servers[1].defaultPricing
  /\ pricing \notin PricingsOf(config, "s2")

\* The request's headers with every name in lower case.
LowerCased(hdr) ==
  Headers([n \in {Lower(m) : m \in DOMAIN hdr.h} |->
             hdr.h[CHOOSE m \in DOMAIN hdr.h : Lower(m) = n]])

\* No two headers of the request differ in letter case only.
NoCaseTwins(hdr) ==
  \A m, n \in DOMAIN hdr.h : Lower(m) = Lower(n) => m = n

\* C8: the admission of a request is the admission of the same request with
\* its header names in lower case.
C8_HeaderNameCaseIgnored ==
  (/\ pc \in {"done", "awaitFacilitator"}
   /\ facResp.kind = "none"
   /\ req.hdr.present
   /\ NoCaseTwins(req.hdr))
    => LET v == verifyPayment(config, req.tool, req.server, LowerCased(req.hdr))
       IN  /\ v.fetch <=> pc = "awaitFacilitator"
           /\ ~v.fetch => result = v.result

\* C9: in passthrough mode the headers sent upstream are the request's
\* x-payment, x-eliza-api-key and authorization headers, under the names
\* the client used and with its values, and nothing else.
C9_PassthroughHeadersExact ==
  (forwarded.sent /\ getServerPaymentMode(config, req.server) = "passthrough")
    => LET sent == forwarded.headers
           wanted == Named("x-payment") \cup Named("x-eliza-api-key")
                       \cup Named("authorization")
       IN  /\ DOMAIN sent = wanted
           /\ \A n \in wanted : sent[n] = req.hdr.h[n]

----------------------------------------------------------------------------
(* What the specification says of money *)

\* A dollar amount: an optional "$", digits, and optionally a point and
\* more digits.
Unsigned(money) == IF money # <<>> /\ Head(money) = "$" THEN Tail(money) ELSE money
WholePart(money) == LeadingDigits(Unsigned(money))
AfterWhole(money) ==
  SubSeq(Unsigned(money), Len(WholePart(money)) + 1, Len(Unsigned(money)))
WellFormedAmount(money) ==
  /\ WholePart(money) # <<>>
  /\ \/ AfterWhole(money) = <<>>
     \/ /\ Len(AfterWhole(money)) >= 2
        /\ Head(AfterWhole(money)) = "."
        /\ \A i \in 2..Len(AfterWhole(money)) : IsDigit(AfterWhole(money)[i])

\* floor(dollars * 10^6) of a well-formed amount, in decimal: the digits of
\* the whole part followed by the first six decimals.
ExactAtomic(money) ==
  LET decimals == IF AfterWhole(money) = <<>> THEN <<>> ELSE Tail(AfterWhole(money))
      six == [i \in 1..6 |-> IF i <= Len(decimals) THEN decimals[i] ELSE "0"]
      digits == StripLeading(WholePart(money) \o six, "0")
  IN  IF digits = <<>> THEN <<"0">> ELSE digits

\* C5: a challenge has x402Version 1 and one accepts entry: scheme "exact",
\* the configured network, the configured recipient, the USDC contract of
\* the network (base-sepolia's for a network the gateway does not know),
\* 30 seconds, the resource /tools/<tool>, and as amount the price of the
\* tool in micro-dollars, 10000 for a tool without an x402 price.
C5_ChallengeShape ==
  challenge # <<>>
    => LET c == challenge[1]
           a == c.accepts[1]
       IN  /\ c.x402Version = 1
           /\ Len(c.accepts) = 1
           /\ a.scheme = "exact"
           /\ config.payment.network # "" => a.network = config.payment.network
           /\ a.payTo = config.payment.recipient
           /\ a.asset = IF a.network \in DOMAIN USDC_ADDRESSES
                        THEN USDC_ADDRESSES[a.network]
                        ELSE USDC_ADDRESSES["base-sepolia"]
           /\ a.maxTimeoutSeconds = 30
           /\ a.resource = <<"/tools/", req.tool>>
           /\ a.maxAmountRequired =
                IF ReqPricing.x402 # Undefined THEN ExactAtomic(ReqPricing.x402)
                ELSE <<"1", "0", "0", "0", "0">>

\* The exact decimal a well-formed amount denotes: n / 10^k.
DecimalOf(money) ==
  LET decimals == IF AfterWhole(money) = <<>> THEN <<>> ELSE Tail(AfterWhole(money))
  IN  [n |-> Normalise(DecToNat(DecDigits(WholePart(money) \o decimals))),
       k |-> Len(decimals)]

RECURSIVE Pow10(_)
Pow10(n) == IF n <= 0 THEN 1 ELSE 10 * Pow10(n - 1)

\* A markup "P%": a well-formed number followed by "%".
IsPercentMarkup(markup) ==
  /\ Len(markup) >= 2
  /\ markup[Len(markup)] = "%"
  /\ Head(markup) # "$"
  /\ WellFormedAmount(SubSeq(markup, 1, Len(markup) - 1))
\* A markup "$f": "$" followed by a well-formed number.
IsFixedMarkup(markup) ==
  markup # <<>> /\ Head(markup) = "$" /\ WellFormedAmount(markup)

\* The exact marked-up price as a fraction n / 10^k: p * (1 + P/100) for
\* "P%", p + f for "$f".
ExactMarkedUp(price, markup) ==
  LET p == DecimalOf(price)
  IN  IF IsPercentMarkup(markup)
      THEN LET P == DecimalOf(SubSeq(markup, 1, Len(markup) - 1))
               hundred == MulAdd(<<1>>, Pow10(P.k + 2), 0)
           IN  [n |-> Normalise(MulNat(p.n, AddNat(hundred, P.n, 0))),
                k |-> p.k + P.k + 2]
      ELSE LET f == DecimalOf(markup)
               k == IF p.k > f.k THEN p.k ELSE f.k
           IN  [n |-> Normalise(AddNat(MulAdd(p.n, Pow10(k - p.k), 0),
                                       MulAdd(f.n, Pow10(k - f.k), 0), 0)),
                k |-> k]

\* The roundings of n / 10^k to six decimals, in millionths: the nearest
\* millionth, and at a tie both the one a round-half-up and the one a
\* round-half-to-even gives.
RoundedMillionths(x) ==
  IF x.k <= 6 THEN {Normalise(MulAdd(x.n, Pow10(6 - x.k), 0))}
  ELSE LET D == Pow10(x.k - 6)
           d == DivSmall(x.n, D, 0)
           down == Normalise(d.q)
           up == Normalise(MulAdd(d.q, 1, 1))
           even == IF down = <<>> \/ down[Len(down)] % 2 = 0 THEN down ELSE up
       IN  IF 2 * d.r < D THEN {down}
           ELSE IF 2 * d.r > D THEN {up}
           ELSE {up, even}

\* "$" and a number of millionths written with exactly six decimals.
SixDecimals(n) ==
  LET digits == PadLeft(NatToString(n), "0", 7)
  IN  <<"$">> \o SubSeq(digits, 1, Len(digits) - 6) \o <<".">>
        \o SubSeq(digits, Len(digits) - 5, Len(digits))

\* C11: the marked-up price of a well-formed price p is "$" and a number
\* with exactly six decimals: p * (1 + P/100) rounded to six decimals for
\* a markup "P%", p + f rounded to six decimals for a markup "$f".
C11_MarkupRounded ==
  ( /\ markupOut # <<>>
    /\ Head(markupIn.downstreamPrice) = "$"
    /\ WellFormedAmount(markupIn.downstreamPrice)
    /\ IsPercentMarkup(markupIn.markup) \/ IsFixedMarkup(markupIn.markup) )
    => \E n \in RoundedMillionths(
                  ExactMarkedUp(markupIn.downstreamPrice, markupIn.markup)) :
         markupOut = SixDecimals(n)

\* The name is an exposed name of the current registry snapshot.
InRegistry(name) == \E e \in registry : e.name = name
\* The entry the current snapshot holds under an exposed name.
EntryOf(name) == CHOOSE e \in registry : e.name = name
\* The step starts a call: a handler takes slot c for a request.
Starts(c) == calls[c].pc = "free" /\ calls'[c].pc # "free"
\* The step is a handler answering a request at once, with no call begun
\* or ended.
AnswersAtOnce == reply' # reply /\ calls' = calls
\* The names the session-ledger front-end serves itself.
ServedByGateway(name) == frontEnd = "ledger" /\ name \in PaywallToolNames

\* C12 as stated: a request for a name or URI that is not in the current
\* registry snapshot fails with MethodNotFound, starts no call to an
\* upstream and changes no payment or session state.
C12_UnknownNameMethodNotFound ==
  [][ /\ \A c \in 1..MaxCalls : Starts(c) => calls'[c].item \in registry
      /\ (AnswersAtOnce /\ ~InRegistry(reply'.to))
           => /\ reply'.outcome = "MethodNotFound"
              /\ UNCHANGED <<sessions, stats>> ]_vars

\* C12 amended: a request for a name or URI that is not in the current
\* registry snapshot and that the session-ledger front-end does not serve
\* itself (gateway:paywall:...) fails with MethodNotFound, starts no call
\* to an upstream and changes no payment or session state.
C12_UnknownNameRejected ==
  [][ /\ \A c \in 1..MaxCalls : Starts(c) => calls'[c].item \in registry
      /\ (AnswersAtOnce /\ ~InRegistry(reply'.to) /\ ~ServedByGateway(reply'.to))
           => /\ reply'.outcome = "MethodNotFound"
              /\ UNCHANGED <<sessions, stats>> ]_vars

\* A name the registry listed until the last rebuild is answered with
\* MethodNotFound.
C12_Witness ==
  /\ reply.outcome = "MethodNotFound"
  /\ reply.to = "t1"
  /\ ~InRegistry("t1")

\* C13: a request whose registry entry points to an upstream that the
\* connection manager does not know or that is not connected fails with
\* InternalError (server not connected), starts no call to an upstream and
\* changes no session.
C13_NotConnectedRejected ==
  [][ /\ \A c \in 1..MaxCalls : Starts(c) => Connected(calls'[c].item.serverId)
      /\ (AnswersAtOnce /\ InRegistry(reply'.to)
             /\ ~Connected(EntryOf(reply'.to).serverId))
           => /\ reply'.outcome = "NotConnected"
              /\ UNCHANGED <<sessions, stats>> ]_vars

\* A priced tool of an upstream in 'error' was asked for by a session that
\* holds a balance, and the answer is the InternalError.
C13_Witness ==
  /\ reply.outcome = "NotConnected"
  /\ reply.to = "t1"
  /\ InRegistry("t1")
  /\ connections["s1"].status = "error"
  /\ frontEnd = "ledger"
  /\ getSessionBalance(sessions, currentSessionId) > 0

\* The entry an exposed name has in a snapshot that lists every upstream.
ListedEntry(kind, name) ==
  CHOOSE e \in RegistrySnapshot : e.kind = kind /\ e.name = name

\* C14: a call on an exposed name goes to exactly one upstream, the one of
\* the name's registry entry, under the entry's original name or URI, and
\* the response of that upstream is returned unchanged.
C14_ForwardedToEntry ==
  /\ \A c \in 1..MaxCalls :
       calls[c].pc = "upstream"
         => LET e == ListedEntry(calls[c].item.kind, calls[c].item.name)
            IN  /\ calls[c].sent.serverId = e.serverId
                /\ calls[c].sent.name = e.originalName
  /\ reply.outcome = "Result"
       => /\ reply.answer.ok
          /\ reply.body = reply.answer.said
          /\ \E e \in RegistrySnapshot :
               e.name = reply.to /\ e.serverId = reply.answer.serverId

\* A call on a namespaced name is with its upstream under the original
\* name, and an earlier one has been answered with the upstream's response.
C14_Witness ==
  /\ \E c \in 1..MaxCalls :
       /\ calls[c].pc = "upstream"
       /\ calls[c].item.name = "s2:t1"
       /\ calls[c].sent = [serverId |-> "s2", name |-> "t1"]
  /\ reply.outcome = "Result"
  /\ reply.to = "s2:t1"

\* The step ends call c with the upstream's failure.
FailsCall(c) ==
  /\ calls[c].pc = "upstream"
  /\ calls'[c].pc = "free"
  /\ reply'.outcome = "ExecutionFailed"
\* The exposed names of an upstream.
NamesOf(serverId) == {e.name : e \in {x \in RegistrySnapshot : x.serverId = serverId}}
\* A forwarded call has failed with the upstream and no health check has
\* reconnected the upstream since.
Failed(serverId) == connections[serverId].failedCall
\* The outcomes that are InternalError.
InternalErrors == {"NotConnected", "ExecutionFailed", "PaymentRequired"}

\* C15: the failure of an upstream during a forwarded call is returned as
\* InternalError with the upstream's message; it changes no other call, no
\* connection and no session; and as long as no health check has
\* reconnected the failed upstream, every answer to a call on one of its
\* names is InternalError.
C15_FailureContained ==
  [][ /\ \A c \in 1..MaxCalls :
           FailsCall(c)
             => /\ reply'.body = <<FailurePrefix(calls[c].item.kind)>>
                                   \o reply'.answer.said
                /\ ~reply'.answer.ok
                /\ \A d \in 1..MaxCalls \ {c} : calls'[d] = calls[d]
                /\ \A id \in DOMAIN connections :
                     connections'[id].status = connections[id].status
                /\ UNCHANGED <<registry, sessions, stats>>
      /\ \A id \in DOMAIN connections :
           (Failed(id) /\ reply' # reply /\ reply'.to \in NamesOf(id))
             => reply'.outcome \in InternalErrors ]_vars

----------------------------------------------------------------------------
(* What the specification says of the session ledger *)

RECURSIVE SumOf(_)
SumOf(amounts) ==
  IF amounts = <<>> THEN 0 ELSE Head(amounts) + SumOf(Tail(amounts))

\* The session a call was about, as it was when the call was made.
Existed(sessionId) == sessionId \in DOMAIN ledgerCall.before
BalanceBefore(sessionId) == ledgerCall.before[sessionId].remainingBalance
Called(op) == ledgerCall.op = op

\* C16: isSessionAuthorized returns true exactly when the price is at most
\* 0, or the session exists, has not expired and has a remaining balance of
\* at least the price; a session that recorded no payment is not authorized
\* for a positive price.
C16_AuthorizedExactly ==
  Called("isSessionAuthorized")
    => LET sessionId == ledgerCall.args[1]
           price == ledgerCall.args[2]
       IN  /\ ledgerCall.value
                = \/ price <= 0
                  \/ /\ Existed(sessionId)
                     /\ ~ledgerCall.before[sessionId].expired
                     /\ BalanceBefore(sessionId) >= price
           /\ (~Existed(sessionId) /\ price > 0) => ~ledgerCall.value

\* An expired session whose balance covers the price has been refused.
C16_Witness ==
  /\ Called("isSessionAuthorized")
  /\ Existed(ledgerCall.args[1])
  /\ ledgerCall.before[ledgerCall.args[1]].expired
  /\ ledgerCall.args[2] > 0
  /\ BalanceBefore(ledgerCall.args[1]) >= ledgerCall.args[2]
  /\ ~ledgerCall.value

\* C17: deductFromSession of a positive amount returns true and lowers the
\* session's remaining balance by exactly the amount when the session exists
\* with a balance of at least the amount, returns false and leaves the
\* balance as it was otherwise; the balance of every other session is as it
\* was.
C17_DeductFrame ==
  (Called("deductFromSession") /\ ledgerCall.args[2] > 0)
    => LET sessionId == ledgerCall.args[1]
           amount == ledgerCall.args[2]
           covered == Existed(sessionId) /\ BalanceBefore(sessionId) >= amount
       IN  /\ ledgerCall.value = covered
           /\ DOMAIN sessions = DOMAIN ledgerCall.before
           /\ covered => sessions[sessionId].remainingBalance
                            = BalanceBefore(sessionId) - amount
           /\ (~covered /\ Existed(sessionId))
                => sessions[sessionId].remainingBalance = BalanceBefore(sessionId)
           /\ \A other \in DOMAIN sessions \ {sessionId} :
                sessions[other].remainingBalance = BalanceBefore(other)

\* A deduction from one of two sessions has been refused for a balance
\* smaller than the amount.
C17_Witness ==
  /\ Called("deductFromSession")
  /\ Cardinality(DOMAIN sessions) = 2
  /\ Existed(ledgerCall.args[1])
  /\ 0 < BalanceBefore(ledgerCall.args[1])
  /\ BalanceBefore(ledgerCall.args[1]) < ledgerCall.args[2]
  /\ ~ledgerCall.value

LiveSession(sessionId) == sessionId \in DOMAIN sessions /\ ~sessions[sessionId].expired

\* C18: the remaining balance of a live session is the sum of its recorded
\* receipt amounts less the amounts used by recordAuthorization and the
\* amounts deductFromSession deducted with success; totalPayments is the
\* number of receipts recorded and totalAmount their sum.
C18_BalanceIsReceiptsLessSpent ==
  /\ \A sessionId \in LedgerSessionIds :
       LiveSession(sessionId)
         => sessions[sessionId].remainingBalance
              = SumOf(sessions[sessionId].receipts) - SpentBy(sessionId)
  /\ stats.totalPayments = audit.count
  /\ stats.totalAmount = audit.sum

\* A session with two receipts, one of them partly used at once, has had an
\* amount deducted.
C18_Witness ==
  /\ Called("deductFromSession")
  /\ ledgerCall.value = TRUE
  /\ ledgerCall.args[2] > 0
  /\ LiveSession(ledgerCall.args[1])
  /\ Len(sessions[ledgerCall.args[1]].receipts) = 2
  /\ SpentBy(ledgerCall.args[1]) > ledgerCall.args[2]

----------------------------------------------------------------------------
(* What the specification says of the price of an item *)

\* The item's own price in the table of its kind, the empty string being no
\* price.
OwnPrice(kind, id, paywall) ==
  LET table == CASE kind = "tool" -> paywall.perTool
                 [] kind = "resource" -> paywall.perResource
                 [] kind = "prompt" -> paywall.perPrompt
  IN  IF id \in DOMAIN table THEN table[id] ELSE Undefined

ApplicablePrice(kind, id, paywall) ==
  IF OwnPrice(kind, id, paywall) # Undefined
  THEN OwnPrice(kind, id, paywall)
  ELSE paywall.defaultPriceMicroUSDC

ValidInteger(str) ==
  str # <<>> /\ \A i \in 1..Len(str) : str[i] \in Digits

\* C19: with the paywall enabled, the price of an item is its own price in
\* the table of its kind if it has one, the server's default price
\* otherwise; the result is null when the paywall is disabled or absent,
\* when neither price is given, and when the price that applies is zero or
\* not an integer.
C19_PriceResolved ==
  (Called("getRequiredPriceMicroUSDC") /\ ledgerCall.value # <<>>)
    => LET kind == ledgerCall.args[1]
           id == ledgerCall.args[2]
           paywall == ledgerCall.args[3]
           applies == ApplicablePrice(kind, id, paywall)
       IN  ledgerCall.value[1]
             = IF ~(paywall.defined /\ paywall.enabled) THEN Null
               ELSE IF applies = Undefined THEN Null
               ELSE IF ~ValidInteger(applies) THEN Null
               ELSE IF BigInt(applies) = 0 THEN Null
               ELSE Price(BigInt(applies))

\* The tool's own price has been returned though the server has another
\* default price.
C19_Witness ==
  /\ Called("getRequiredPriceMicroUSDC")
  /\ ledgerCall.args[1] = "tool"
  /\ ledgerCall.args[3].enabled
  /\ OwnPrice("tool", ledgerCall.args[2], ledgerCall.args[3]) = STR_50000
  /\ ledgerCall.args[3].defaultPriceMicroUSDC = STR_150000
  /\ ledgerCall.value = <<Price(50000)>>

----------------------------------------------------------------------------
(* What the specification says of the names in a snapshot *)

NoTwoShareName(entries) ==
  \A i, j \in DOMAIN entries : entries[i].name = entries[j].name => i = j

\* C20: in a published snapshot no two tools have the same exposed name, no
\* two resources the same exposed URI and no two prompts the same exposed
\* name, whatever the connected upstreams list and under whatever namespace.
C20_ExposedNamesUnique ==
  registry # EmptyRegistry
    => /\ NoTwoShareName(registry.tools)
       /\ NoTwoShareName(registry.resources)
       /\ NoTwoShareName(registry.prompts)

\* A tool was renamed to a name another upstream had listed itself, and
\* renamed again.
C20_Witness ==
  /\ registry # EmptyRegistry
  /\ \E i, j \in DOMAIN registry.tools :
       /\ registry.tools[i].serverId = "s1"
       /\ registry.tools[i].name = STR_t_s2
       /\ registry.tools[j].serverId = "s2"
       /\ registry.tools[j].originalName = STR_t
       /\ registry.tools[j].name = STR_t_s2_2
  /\ Len(registry.resources) = 2

\* The items the connected upstreams list for a kind, in configuration
\* order, under the names computed from the namespaces.
ItemsListed(kind) == listed(kind, config.servers, connections)

Published(kind) ==
  CASE kind = "tool" -> registry.tools
    [] kind = "resource" -> registry.resources
    [] kind = "prompt" -> registry.prompts

ResolutionEnabled(kind) ==
  CASE kind = "tool" -> config.settings.enableToolConflictResolution
    [] kind = "resource" -> config.settings.enableResourceConflictResolution
    [] kind = "prompt" -> config.settings.enablePromptConflictResolution

RegistryKinds == {"tool", "resource", "prompt"}

\* name, name@upstreamId, name@upstreamId#2, ...: the n-th name tried.
Tried(name, upstreamId, n) ==
  IF n = 0 THEN name
  ELSE name \o <<"@">> \o IdString(upstreamId)
         \o IF n = 1 THEN <<>> ELSE <<"#">> \o Ordinal(n)

NamesBefore(entries, i) == {entries[j].name : j \in 1..(i - 1)}

\* C21: with conflict resolution enabled every listed item is published, in
\* the order listed; an item whose name no earlier item was published under
\* keeps it, and a later one is published under the first of
\* name@upstreamId, name@upstreamId#2, #3, ... that no earlier item was
\* published under.
C21_LaterItemSuffixed ==
  registry # EmptyRegistry
    => \A kind \in RegistryKinds :
         ResolutionEnabled(kind)
           => LET items == ItemsListed(kind)
                  entries == Published(kind)
              IN  /\ Len(entries) = Len(items)
                  /\ \A i \in DOMAIN items :
                       /\ entries[i].serverId = items[i].serverId
                       /\ entries[i].originalName = items[i].originalName
                       /\ \E n \in 0..Len(items) :
                            /\ entries[i].name
                                 = Tried(items[i].name, items[i].serverId, n)
                            /\ entries[i].name \notin NamesBefore(entries, i)
                            /\ \A m \in 0..(n - 1) :
                                 Tried(items[i].name, items[i].serverId, m)
                                   \in NamesBefore(entries, i)

\* Two upstreams list the tool t; the first keeps t, the second is published
\* as t@s2.
C21_Witness ==
  /\ registry # EmptyRegistry
  /\ config.settings.enableToolConflictResolution
  /\ \E i, j \in DOMAIN registry.tools :
       /\ i < j
       /\ registry.tools[i].serverId = "s1"
       /\ registry.tools[i].name = STR_t
       /\ registry.tools[j].serverId = "s2"
       /\ registry.tools[j].originalName = STR_t
       /\ registry.tools[j].name = STR_t_s2

\* The first listed item of each name.
FirstOfName(items) ==
  {i \in DOMAIN items : \A j \in 1..(i - 1) : items[j].name # items[i].name}

\* C22: with conflict resolution disabled the entries of a kind are the
\* first listed item of each exposed name, so there are as many entries as
\* distinct exposed names.
C22_FirstKeptLaterDropped ==
  registry # EmptyRegistry
    => \A kind \in RegistryKinds :
         ~ResolutionEnabled(kind)
           => LET items == ItemsListed(kind)
                  entries == Published(kind)
              IN  /\ Len(entries) = Cardinality({items[i].name : i \in DOMAIN items})
                  /\ {entries[i] : i \in DOMAIN entries}
                       = {items[i] : i \in FirstOfName(items)}

\* Both upstreams list the tool t and only the first upstream's is published.
C22_Witness ==
  /\ registry # EmptyRegistry
  /\ ~config.settings.enableToolConflictResolution
  /\ connections["s2"].status = "connected"
  /\ \E i \in DOMAIN connections["s2"].tools : connections["s2"].tools[i] = STR_t
  /\ \E i \in DOMAIN connections["s1"].tools : connections["s1"].tools[i] = STR_t
  /\ \A i \in DOMAIN registry.tools :
       registry.tools[i].name = STR_t => registry.tools[i].serverId = "s1"

\* The request without the headers that carry an API key.
WithoutKeys ==
  IF ~req.hdr.present THEN req.hdr
  ELSE Headers([n \in DOMAIN req.hdr.h
                     \ (Named("x-eliza-api-key") \cup Named("authorization"))
                  |-> req.hdr.h[n]])

\* A carried key that by itself admits: known, with a price for its tier.
KeyAdmits(key) ==
  /\ ApiKeyKnown(config, key)
  /\ ReqPricing.apiKeyTiers[ApiKeyTier(config, key)] # Undefined

\* C30: a priced call whose API keys are all unknown or of a tier without
\* an entry in the pricing is decided as the same call without the keys is:
\* authorized by x402 at the x402 price when the facilitator has verified
\* its X-PAYMENT proof, and, when it carries no payment header, not
\* authorized, with the payment-required error and without a call to the
\* facilitator.
C30_KeyFallsThrough ==
  (/\ Decided /\ PricedCall
   /\ CarriedKeys # {}
   /\ \A key \in CarriedKeys : ~KeyAdmits(key))
    => LET v == verifyPayment(config, req.tool, req.server, WithoutKeys)
           amount == OrElse(ReqPricing.x402, STR_001)
       IN  /\ v.fetch = (fetches # <<>>)
           /\ result = IF v.fetch
                       THEN verifyPaymentResume(ReqPricing,
                              verifyX402PaymentResume(ReqPricing, facResp))
                       ELSE v.result
           /\ FacilitatorVerified
                => result = Result(TRUE, Undefined, ReqPricing.x402, "x402")
           /\ Named("x-payment") = {}
                => /\ fetches = <<>>
                   /\ result = Result(FALSE, PaymentRequiredError(amount),
                                      amount, "x402")

\* A call with an unknown key and a payment proof is admitted by x402.
C30_Witness ==
  /\ pc = "done"
  /\ PricedCall
  /\ CarriedKeys = {<<"BAD">>}
  /\ FacilitatorVerified
  /\ result.authorized /\ result.method = "x402"

\* The cap the upstream's configuration gives: maxValueMicroUSDC when it is
\* an integer, 100000 micro-USDC otherwise.
ConfiguredMaxValue ==
  LET middleware == config.servers[1].x402Middleware
      raw == middleware.maxValueMicroUSDC
  IN  IF ~middleware.boolean /\ raw # Undefined /\ ValidInteger(raw)
      THEN BigInt(raw) ELSE 100000

\* C29: in one call at most one payment is signed and the request is sent
\* at most twice, the second time only after a signature; the amount signed
\* is the amount the upstream required and is at most the configured cap;
\* when the required amount is above the cap nothing is signed, nothing is
\* sent again and the call fails with an error that is not transient.
C29_SignOnceWithinCap ==
  /\ Len(outbound.signed) <= 1
  /\ outbound.sends <= 1 + Len(outbound.signed)
  /\ \A i \in DOMAIN outbound.signed :
       /\ outbound.signed[i] <= ConfiguredMaxValue
       /\ outbound.required = <<outbound.signed[i]>>
  /\ (outbound.required # <<>> /\ outbound.required[1] <= ConfiguredMaxValue)
       => outbound.signed = outbound.required
  /\ (outbound.required # <<>> /\ outbound.required[1] > ConfiguredMaxValue)
       => /\ outbound.signed = <<>>
          /\ outbound.sends = 1
          /\ outbound.pc = "Done"
          /\ outbound.outcome.kind = "UpstreamError"
          /\ ~outbound.outcome.transient

\* Under a configured cap of 150000 a payment of 120000, above the default
\* cap, has been signed and the request sent again.
C29_Witness ==
  /\ config.servers[1].x402Middleware.maxValueMicroUSDC = STR_150000
  /\ outbound.signed = <<120000>>
  /\ outbound.sends = 2
  /\ outbound.pc = "Done"

\* C10: the conversion of a well-formed dollar amount is
\* floor(dollars * 10^6) in decimal, without leading zeros.
C10_WellFormedExact ==
  (amountOut # <<>> /\ WellFormedAmount(amountIn))
    => amountOut = ExactAtomic(amountIn)

----------------------------------------------------------------------------
(* What the specification says of forwarding *)

\* The admission of a call the client makes with no payment evidence.
AdmissionAllows(item) ==
  verifyPayment(config, item.originalName, item.serverId, NoHeaders).result.authorized

\* C1: a call reaches its upstream only if admission allowed it: in the
\* session-ledger front-end, only if the item is free or the session was
\* authorized for its price; in the other front-end, only if verifyPayment
\* authorizes the call.
C1_ForwardOnlyAdmitted ==
  \A c \in 1..MaxCalls :
    calls[c].pc = "upstream"
      => IF frontEnd = "ledger"
         THEN LET si == FindIndex(config.servers,
                                  LAMBDA sv : sv.name = calls[c].item.serverId)
                  price == getRequiredPriceMicroUSDC(calls[c].item.kind,
                             calls[c].item.originalName, config.servers[si])
              IN  price.null \/ calls[c].isAuthorized
         ELSE AdmissionAllows(calls[c].item)

\* The rebuilds under way: the one start() waits for and those of the
\* health-check passes.
BuildsUnderWay ==
  {b \in {run.built} \cup {run.passes[i].built : i \in 1..Len(run.passes)} :
     b.stage # "idle"}

\* The step publishes a rebuilt registry: the last list of a rebuild
\* under way is in, and the registry becomes what its three lists gave.
PublishesRebuilt ==
  \E b \in BuildsUnderWay :
    /\ b.stage = "prompt"
    /\ registry' = rebuildPass(b, connections).entries

\* C23: a rebuild replaces the tools, resources and prompts of the registry
\* in one step: the registry changes only when a rebuild publishes all
\* three lists together, so a reader finds the snapshot from before the
\* rebuild or the one after it, and a call in flight while a rebuild goes
\* on keeps the entry it was started with.
C23_RebuildSwapsAtOnce ==
  [][ /\ registry' # registry => PublishesRebuilt
      /\ \A c \in 1..MaxCalls :
           /\ Starts(c) => calls'[c].item \in registry
           /\ (calls[c].pc = "upstream" /\ calls'[c].pc = "upstream")
                => calls'[c] = calls[c] ]_vars

\* A rebuild has listed tools that the published registry does not hold,
\* while a call started on the published registry is with its upstream.
C23_Witness ==
  /\ \E b \in BuildsUnderWay :
       /\ b.stage \in {"resource", "prompt"}
       /\ \E e \in b.entries : e \notin registry
  /\ \E c \in 1..MaxCalls :
       calls[c].pc = "upstream" /\ calls[c].item \in registry

\* C24: in every reachable state a session whose status is 'connected' has
\* a client, not null and open for requests, and a session whose status is
\* 'error' has its lastError set.
C24_SessionRecordsSound ==
  \A id \in DOMAIN connections :
    /\ connections[id].status = "connected"
         => connections[id].client = "open"
    /\ connections[id].status = "error"
         => connections[id].lastError # ""

\* A health check has parked one session that had been connected, with the
\* failed probe as its lastError, while another is connected.
C24_Witness ==
  /\ \E id \in DOMAIN connections :
       /\ connections[id].status = "error"
       /\ connections[id].lastError = "health check failed"
  /\ \E id \in DOMAIN connections :
       connections[id].status = "connected" /\ connections[id].client = "open"

\* The connect task of an upstream before the step, one that has made no
\* attempt if the step is the one that starts it.
TaskBefore(id) ==
  IF id \in DOMAIN run.tasks THEN run.tasks[id] ELSE NoTask

\* C25: during initialize the connect task of each upstream makes at most
\* retryAttempts attempts, makes another attempt only after a transient
\* failure, pauses retryDelay before every attempt but the first, and ends
\* with the session in 'error' on a failure that is not transient or that
\* is the last attempt allowed.
C25_ConnectTaskBounded ==
  [][ \A id \in DOMAIN run'.tasks :
        LET before == TaskBefore(id)
            after == run'.tasks[id]
            server == ServerOf(id)
        IN  /\ after.attempts <= server.retryAttempts
            /\ after.attempts > before.attempts
                 => /\ after.attempts = before.attempts + 1
                    /\ before.attempts = 0 \/ before.last = "transient"
            /\ Len(after.pauses) = IF after.attempts = 0 THEN 0
                                   ELSE after.attempts - 1
            /\ \A i \in 1..Len(after.pauses) :
                 after.pauses[i] = server.retryDelay
            /\ (after.last = "fatal"
                  \/ (after.last = "transient"
                        /\ after.attempts = server.retryAttempts))
                 => /\ after.done
                    /\ connections'[id].status = "error"
            /\ (after.done /\ after.last # "ok")
                 => connections'[id].status = "error" ]_vars

\* A connect task with the default settings has failed three times with a
\* transient failure, a second apart, and its session is in 'error'.
C25_Witness ==
  \E id \in DOMAIN run.tasks :
    /\ run.tasks[id].attempts = 3
    /\ run.tasks[id].pauses = <<1000, 1000>>
    /\ run.tasks[id].last = "transient"
    /\ run.tasks[id].done
    /\ connections[id].status = "error"

\* No session is connected after the step, though there are sessions.
NoneConnected ==
  /\ DOMAIN connections' # {}
  /\ \A id \in DOMAIN connections' : connections'[id].status = "error"

\* C26: start() never fails because upstreams fail to connect, and when
\* every configured upstream has failed to connect it completes with an
\* empty registry, so that a request for any name is answered with
\* MethodNotFound.
C26_StartSurvivesFailedConnects ==
  [][ /\ run'.started # "failed"
      /\ (run.started = "" /\ run'.started = "ok" /\ NoneConnected)
           => /\ registry' = {}
              /\ run'.pc = "running"
      /\ (run.started = "ok" /\ registry = {} /\ AnswersAtOnce)
           => reply'.outcome = "MethodNotFound" ]_vars

\* start() has returned, every connect task has failed, the registry is
\* empty and a request for a tool has been answered with MethodNotFound.
C26_Witness ==
  /\ run.started = "ok"
  /\ run.pc = "running"
  /\ DOMAIN connections = {"s1", "s2"}
  /\ \A id \in DOMAIN connections :
       /\ connections[id].status = "error"
       /\ connections[id].lastError \in {"transient", "fatal"}
  /\ registry = {}
  /\ reply.outcome = "MethodNotFound"
  /\ reply.to = "t1"

\* What an upstream lists: its tools, resources and prompts.
ItemsOf(serverId) == {e \in RegistrySnapshot : e.serverId = serverId}

\* The step ends the i-th health-check pass under way: its rebuild
\* publishes.
PassEnds(i) ==
  /\ run.passes[i].built.stage = "prompt"
  /\ run'.passes = Without(run.passes, i)
  /\ registry' = rebuildPass(run.passes[i].built, connections).entries

----------------------------------------------------------------------------
(* What the session-ledger front-end does with a session's balance *)

\* The step is the handler of call c resuming after an authorized check:
\* it deducts and goes on to call the upstream.
GoesOnToForward(c) == calls[c].pc = "checked" /\ calls'[c].pc = "deducted"

\* C31: under any interleaving of priced calls on one session, a call that
\* goes on to its upstream has had its price taken from the session's
\* balance, so that the calls forwarded never cost more than was
\* authorized.
C31_ForwardedCallsDeducted ==
  [][ \A c \in 1..MaxCalls :
        GoesOnToForward(c)
          => /\ currentSessionId \in DOMAIN sessions
             /\ sessions'[currentSessionId].remainingBalance
                  = sessions[currentSessionId].remainingBalance
                      - calls[c].requiredPrice.value ]_vars

\* C32: in every reachable state the remaining balance of each paywall
\* session is at least zero and at most the amount authorized for it.
C32_BalanceWithinAuthorized ==
  \A id \in DOMAIN sessions :
    /\ 0 <= sessions[id].remainingBalance
    /\ sessions[id].remainingBalance <= sessions[id].authorizedAmount

\* The session has spent all that was authorized for it on priced calls,
\* and the next priced call was answered with the payment-required error.
C32_Witness ==
  /\ currentSessionId \in DOMAIN sessions
  /\ ~sessions[currentSessionId].expired
  /\ sessions[currentSessionId].authorizedAmount > 0
  /\ sessions[currentSessionId].remainingBalance = 0
  /\ reply.outcome = "PaymentRequired"

----------------------------------------------------------------------------
(* What the challenge promises a client that pays *)

\* The proof the request carries in the header the middleware reads.
ProofSent == OrElse(Get(req.hdr, "x-payment"), Get(req.hdr, "X-PAYMENT"))

\* The requirements the tool's challenge publishes.
Challenged ==
  generatePaymentRequiredResponse(config, req.tool, req.server).accepts[1]

\* C35: what the middleware submits to the facilitator for a tool is what
\* the tool's challenge publishes (network, maxAmountRequired, payTo,
\* asset), so a priced call that comes back with a well-formed X-PAYMENT
\* proof and no API key that admits it is put to the facilitator and is
\* admitted when the facilitator verifies the proof, also when the tool's
\* pricing has no x402 price and the challenge asks for the default $0.01.
C35_ChallengedProofAdmitted ==
  /\ fetches # <<>>
       => /\ fetches[1].network = Challenged.network
          /\ fetches[1].maxAmountRequired = Challenged.maxAmountRequired
          /\ fetches[1].payTo = Challenged.payTo
          /\ fetches[1].asset = Challenged.asset
  /\ (Decided /\ PricedCall /\ DecodesToJson(ProofSent)
        /\ result.method # "apiKey")
       => /\ facResp.kind # "none"
          /\ FacilitatorVerified => result.authorized

\* The session a ledger call named existed before the call and its expiry
\* time had passed.
ExpiredBefore(sessionId) ==
  Existed(sessionId) /\ ledgerCall.before[sessionId].expired

\* C36: once a session's expiry time has passed, the balance it had left
\* is never spent again: the session authorizes no priced call, and a
\* recordAuthorization for the same session id leaves the balance at the
\* new receipt's amount, less what is used at once.
C36_ExpiredBalanceGone ==
  /\ (Called("isSessionAuthorized") /\ ledgerCall.args[2] > 0
        /\ ExpiredBefore(ledgerCall.args[1]))
       => ~ledgerCall.value
  /\ (Called("recordAuthorization") /\ ExpiredBefore(ledgerCall.args[1]))
       => sessions[ledgerCall.args[1]].remainingBalance
            = ledgerCall.args[2]
                - IF ledgerCall.args[3] > 0 THEN ledgerCall.args[3] ELSE 0

\* C37: in the session-ledger front-end the price of a call is taken from
\* the session when the call goes on to its upstream, and the failure of
\* the upstream gives nothing back: the balance after a failed priced call
\* is the balance before it less the price.
C37_DeductedNotRestored ==
  [][ \A c \in 1..MaxCalls :
        /\ (frontEnd = "ledger" /\ GoesOnToForward(c))
             => /\ currentSessionId \in DOMAIN sessions
                /\ currentSessionId \in DOMAIN sessions'
                /\ sessions'[currentSessionId].remainingBalance
                     + calls[c].requiredPrice.value
                     = sessions[currentSessionId].remainingBalance
        /\ (frontEnd = "ledger" /\ FailsCall(c)) => sessions' = sessions ]_vars

----------------------------------------------------------------------------
(* The ledger front-end's CallTool handler when an upstream lists a tool   *)
(* under a name that carries the gateway's own paywall prefix              *)

\* A registry entry of upstream s1 whose exposed name is the name of the
\* gateway's own authorize tool.
ShadowTool ==
  [kind |-> "tool", name |-> "gateway:paywall:authorize",
   originalName |-> "gateway:paywall:authorize", serverId |-> "s1"]

CallToolNames ==
  {"t1", "gateway:paywall", "gateway:paywall:get-pricing",
   "gateway:paywall:authorize", "gateway:paywall:bogus"}

InitPaywallNames ==
  /\ config = [payment |-> PaymentPolicy(TRUE, "base-sepolia"),
               servers |-> <<GatewayServer1(STR_150000), GatewayServer2>>]
  /\ pc = "idle" /\ req = NoReq /\ pricing = NoPricing /\ result = NoResult
  /\ fetches = <<>> /\ facResp = NoResp /\ challenge = <<>>
  /\ forwarded = NotForwarded
  /\ AtomicIdle
  /\ frontEnd = "ledger"
  /\ connections = [id \in {"s1", "s2"} |-> Live]
  /\ registry \in {RegistrySnapshot, RegistrySnapshot \cup {ShadowTool}}
  /\ sessions = NoSessions
  /\ stats = NoStats
  /\ calls = [c \in 1..MaxCalls |-> FreeSlot]
  /\ reply = NoReply

\* A tools/call request reaches the ledger front-end.
CallToolRequest ==
  /\ frontEnd = "ledger"
  /\ \E name \in CallToolNames, args \in AuthorizeArgs : CallTool(name, args)

NextPaywallNames ==
  \/ CallToolRequest
  \/ LedgerAfterCheck
  \/ LedgerInvoke
  \/ UpstreamAnswers
  \/ SessionExpires

SpecPaywallNames == InitPaywallNames /\ [][NextPaywallNames]_vars

\* C38: a CallTool whose name starts with "gateway:paywall:" is answered
\* inside the gateway: no call of such a name is ever waiting for the
\* ledger or for an upstream, and the step that answers it takes nothing
\* from any session's balance, even when the registry lists an upstream
\* tool under that exposed name.
C38_PaywallNamesStayInside ==
  [][ /\ \A c \in 1..MaxCalls :
           calls'[c].pc # "free" => ~StartsWithPaywallPrefix(calls'[c].item.name)
      /\ (reply' # reply /\ StartsWithPaywallPrefix(reply'.to))
           => /\ calls' = calls
              /\ \A id \in DOMAIN sessions :
                   /\ id \in DOMAIN sessions'
                   /\ sessions'[id].remainingBalance >= sessions[id].remainingBalance
    ]_vars

C38_Witness ==
  /\ ShadowTool \in registry
  /\ Connected("s1")
  /\ reply.to = "gateway:paywall:authorize"
  /\ reply.outcome = "Authorized"
  /\ currentSessionId \in DOMAIN sessions

\* C33: at most one health-check pass is under way at any time; a timer
\* tick during a pass starts no second one.
C33_OnePassAtATime == Len(run.passes) <= 1

\* C34: once stop() has returned, no health-check pass publishes a
\* registry snapshot or leaves an upstream session connected.
C34_NothingAfterStop ==
  [][ run.pc = "stopped"
        => /\ registry' = registry
           /\ \A id \in DOMAIN connections' :
                connections'[id].status # "connected" ]_vars

----------------------------------------------------------------------------
(* The two front-ends side by side: GatewayHttpServer makes a PaywallGuard *)
(* of its own in its constructor, and so does the GatewayServer of         *)
(* paywall-guard.ts; POST /pay records in the first, the MCP handlers      *)
(* read and write the second                                               *)

\* The body of a POST /pay request: whether JSON.parse takes it, and the
\* parsed.xPayment || parsed.payment found in it ("" is the empty body).
NoBody == [empty |-> TRUE, parses |-> FALSE, payment |-> Undefined]
PayBodies ==
  {NoBody,
   [empty |-> FALSE, parses |-> FALSE, payment |-> Undefined],
   [empty |-> FALSE, parses |-> TRUE, payment |-> Undefined],
   [empty |-> FALSE, parses |-> TRUE, payment |-> <<"PAY1">>]}

\* The values PaywallGuard.generateSessionId('http-session') may return: a
\* hash of the clock and random bytes, which may be any session id, that
\* of the MCP front-end's own session included.
HttpSessionIds == {currentSessionId, "h1"}

\* handlePayEndpoint with a guard shared with the MCP front-end.
handlePayEndpointSharedGuard(mcp, http, xPaymentHeader, body, sessionId) ==
  IF ~Truthy(xPaymentHeader) /\ body.empty
  THEN [mcp |-> mcp, http |-> http, status |-> "400"]
  ELSE IF ~Truthy(xPaymentHeader) /\ ~body.parses
  THEN [mcp |-> mcp, http |-> http, status |-> "500"]
  ELSE IF ~Truthy(OrElse(xPaymentHeader, body.payment))
  THEN [mcp |-> mcp, http |-> http, status |-> "400"]
  ELSE [mcp |-> recordAuthorization(mcp.sessions, mcp.stats, sessionId,
                                    100000, 0),
        http |-> http, status |-> "200"]

\* handlePayEndpoint of GatewayHttpServer, on the ledgers of the two
\* guards: the payment data is the X-Payment header or else the body's
\* xPayment or payment; verifyX402Payment takes any data and returns a
\* receipt for the expected 100000; the authorization is recorded under a
\* new session id in this.paywallGuard, the HTTP server's own.
handlePayEndpoint(mcp, http, xPaymentHeader, body, sessionId) ==
  IF ~Truthy(xPaymentHeader) /\ body.empty
  THEN [mcp |-> mcp, http |-> http, status |-> "400"]
  ELSE IF ~Truthy(xPaymentHeader) /\ ~body.parses
  THEN [mcp |-> mcp, http |-> http, status |-> "500"]
  ELSE IF ~Truthy(OrElse(xPaymentHeader, body.payment))
  THEN [mcp |-> mcp, http |-> http, status |-> "400"]
  ELSE [mcp |-> mcp,
        http |-> recordAuthorization(http.sessions, http.stats, sessionId,
                                     100000, 0),
        status |-> "200"]

InitFrontEnds ==
  /\ config = [payment |-> PaymentPolicy(TRUE, "base-sepolia"),
               servers |-> <<GatewayServer1(STR_150000), GatewayServer2>>]
  /\ pc = "idle" /\ req = NoReq /\ pricing = NoPricing /\ result = NoResult
  /\ fetches = <<>> /\ facResp = NoResp /\ challenge = <<>>
  /\ forwarded = NotForwarded
  /\ AtomicIdle
  /\ frontEnd = "ledger"
  /\ connections = [id \in {"s1", "s2"} |-> Live]
  /\ registry = RegistrySnapshot
  /\ sessions = NoSessions
  /\ stats = NoStats
  /\ calls = [c \in 1..MaxCalls |-> FreeSlot]
  /\ reply = NoReply

\* POST /pay on the HTTP front-end.
HttpPay ==
  /\ httpLedger.stats.totalPayments < MaxPayments
  /\ \E xPaymentHeader \in {Undefined, <<"PAY1">>}, body \in PayBodies,
        sessionId \in HttpSessionIds :
       LET r == handlePayEndpoint([sessions |-> sessions, stats |-> stats],
                                  httpLedger, xPaymentHeader, body, sessionId)
       IN  /\ httpLedger' = r.http
           /\ sessions' = r.mcp.sessions
           /\ stats' = r.mcp.stats
           /\ reply' = GatewayReply("/pay", r.status)
  /\ UNCHANGED <<mediatorVars, amountIn, amountOut, markupIn, markupOut,
                 ledgerCall, audit, outbound, run, frontEnd, connections,
                 registry, calls>>

\* gateway:paywall:authorize and its siblings on the MCP front-end, for
\* the current session or for a session id the HTTP front-end has given
\* out.
McpPaywallTool ==
  \E name \in PaywallToolNames,
     args \in [xPayment : {Undefined, <<"PAY1">>}, token : {Undefined},
               sessionId : {"", "h1"}] :
    handlePaywallTool(name, args)

\* CallTool on the priced tool of the first upstream, on the MCP front-end.
McpCallTool == LedgerHandle("tool", "t1")

NextFrontEnds ==
  \/ HttpPay
  \/ McpPaywallTool
  \/ McpCallTool
  \/ LedgerAfterCheck
  \/ LedgerInvoke
  \/ UpstreamAnswers

SpecFrontEnds == InitFrontEnds /\ [][NextFrontEnds]_vars

\* The answer of the MCP front-end's paywall check on the current session.
McpCheck(ledgerSessions, ledgerStats, price) ==
  isSessionAuthorized(ledgerSessions, ledgerStats, currentSessionId, price).value

\* C39: a payment taken by POST /pay changes the HTTP server's ledger
\* only: the MCP front-end's sessions, balances and the answers of its
\* paywall checks are as before; and a step that changes the MCP
\* front-end's ledger leaves the HTTP server's as it was.
C39_LedgersApart ==
  [][ /\ (httpLedger' # httpLedger \/ (reply' # reply /\ reply'.to = "/pay"))
           => /\ sessions' = sessions
              /\ stats' = stats
              /\ \A price \in {50000, 100000, 150000} :
                   McpCheck(sessions', stats', price)
                     = McpCheck(sessions, stats, price)
      /\ (sessions' # sessions \/ stats' # stats)
           => httpLedger' = httpLedger ]_vars

C39_Witness ==
  /\ currentSessionId \in DOMAIN httpLedger.sessions
  /\ httpLedger.sessions[currentSessionId].remainingBalance = 100000
  /\ currentSessionId \notin DOMAIN sessions
  /\ "h1" \in DOMAIN sessions
  /\ "h1" \notin DOMAIN httpLedger.sessions
  /\ reply.to = "t1"
  /\ reply.outcome = "PaymentRequired"

============================================================================
